---- MODULE Spec2Model ----
(***************************************************************************)
(* Reconciliation engine of Calendario-de-Obrigacoes (backend/services/rpa) *)
(*                                                                         *)
(*   compararLancamentos        comparador/motor.js   strict reconciliation *)
(*   compareBankVsTxt           comparador/motor.js   fuzzy bank-vs-TXT     *)
(*   validateLancamentosAccounts validations/accountValidation.js           *)
(*                                                                         *)
(* Representation.  A JavaScript string is a tuple of one-character        *)
(* strings, so that trim, toLowerCase, toUpperCase, includes, startsWith   *)
(* and split are computed on the characters.  An absent (null, undefined   *)
(* or empty) string field is the empty tuple: every test the code makes on *)
(* such a field (!x, x || y) treats the three alike.  An amount is an      *)
(* integer number of half-cents (1.00 = 200, 0.005 = 1) and a  *)
(* date is a day number; ratios (similarity, score) are exact fractions    *)
(* compared by cross-multiplication.  A divergence keeps, in place of the  *)
(* copied fields of the transactions it cites, the indices of those        *)
(* transactions in their lists (0 where the code stores null).             *)
(***************************************************************************)
EXTENDS Integers, Sequences, FiniteSets, TLC

VARIABLES
    \* compararLancamentos(lancExtrato, lancRazao, toleranciaValor)
    lancExtrato, lancRazao, toleranciaValor,
    casados, indicesExtratoNaoCasados, indicesRazaoNaoCasados,
    pcStrict,
    \* compareBankVsTxt(bankMovements, txtMovements, dateWindowDays,
    \*                  amountTolerance, minDescriptionSimilarity, allowManyToOne)
    bankMovements, txtMovements, dateWindowDays, amountTolerance,
    minDescriptionSimilarity, allowManyToOne,
    casadosBank, casadosTxt,
    melhorMatch,   \* melhorMatch of each finished iteration of the outer forEach
    idxBank,       \* position of the outer forEach
    pcFuzzy,
    \* the divergence list under construction (either comparison)
    divergencias,
    \* validateLancamentosAccounts(comparacaoId, lancamentosOtimiza, source, db)
    chartOfAccounts,            \* table chart_of_accounts
    accountValidationRules,     \* table account_validation_rules, in id order
    lancamentosOtimiza, source,
    idxValida,                  \* idx of the for loop, from 1
    accountValidationResults,   \* rows written by createAccountValidationResult
    okCount, invalidCount, unknownCount,
    dbQueries,                  \* <<idx, table>> for each query the loop ran
    pcValida,
    \* parseValor(valorStr) of the three amount parsers
    valorStr,
    valorOtimiza, valorCsv, valorPdf,  \* <<>> until the parser ran, then <<result>>
    \* processarComparacao(comparacaoId, db) and what it shares with other runs
    comparacoes,          \* table comparacoes, by id
    tabelaDivergencias,   \* table divergencias, the rows of each comparacao_id
    tabelaValidacoes,     \* table account_validation_results, likewise
    disco,                \* the files under data/otimiza and data/mpds
    relogio,              \* new Date(), in seconds
    worker,               \* the locals and the position of each run
    pedidosDelete,        \* DELETE /comparacoes/:id, the position of each request
    \* parseMpdsPdf(filePath, strict)
    chamadasPdf,          \* the promise, the timer and the extraction of each call
    \* parseOtimizaTxt(filePath, strict)
    txtLinhas,            \* linhas: content.split('\n')
    txtStrict,            \* strict
    txtNumLinha,          \* numLinha: lines the for loop has finished
    txtLancamentos,       \* lancamentos
    txtIssues,            \* issues
    txtEfeitos,           \* what each finished line added and why
    pcTxt,                \* idle, lendo, resolved, rejected
    \* step 1 of processarComparacao on its own: the ledger files
    ledgerArquivos,       \* inputFiles.otimiza, each with what its parser returns
    ledgerFalhas,         \* the files whose parse rejected
    ledgerUnicos,         \* lancamentosOtimiza after the duplicate removal
    ledgerIssues,         \* allIssues after the stage
    pcLedger              \* idle, start, done

strictVars == <<lancExtrato, lancRazao, toleranciaValor, casados,
                indicesExtratoNaoCasados, indicesRazaoNaoCasados, pcStrict>>

fuzzyVars == <<bankMovements, txtMovements, dateWindowDays, amountTolerance,
               minDescriptionSimilarity, allowManyToOne, casadosBank, casadosTxt,
               melhorMatch, idxBank, pcFuzzy>>

validaVars == <<chartOfAccounts, accountValidationRules, lancamentosOtimiza, source,
                idxValida, accountValidationResults, okCount, invalidCount,
                unknownCount, dbQueries, pcValida>>

parseVars == <<valorStr, valorOtimiza, valorCsv, valorPdf>>

rotaVars == <<pedidosDelete>>

jobVars == <<comparacoes, tabelaDivergencias, tabelaValidacoes, disco, relogio, worker,
            rotaVars>>

pdfVars == <<chamadasPdf>>

txtVars == <<txtLinhas, txtStrict, txtNumLinha, txtLancamentos, txtIssues, txtEfeitos,
            pcTxt>>

ledgerVars == <<ledgerArquivos, ledgerFalhas, ledgerUnicos, ledgerIssues, pcLedger>>

leitorVars == <<pdfVars, txtVars, ledgerVars>>

vars == <<strictVars, fuzzyVars, divergencias, validaVars, parseVars, jobVars, leitorVars>>

----------------------------------------------------------------------------
(* Strings *)

\* String.prototype.toLowerCase, one character (the accented capitals are
\* those that occur in the inputs)
LowerChar(c) ==
    CASE c = "A" -> "a" [] c = "B" -> "b" [] c = "C" -> "c" [] c = "D" -> "d"
      [] c = "E" -> "e" [] c = "F" -> "f" [] c = "G" -> "g" [] c = "H" -> "h"
      [] c = "I" -> "i" [] c = "J" -> "j" [] c = "K" -> "k" [] c = "L" -> "l"
      [] c = "M" -> "m" [] c = "N" -> "n" [] c = "O" -> "o" [] c = "P" -> "p"
      [] c = "Q" -> "q" [] c = "R" -> "r" [] c = "S" -> "s" [] c = "T" -> "t"
      [] c = "U" -> "u" [] c = "V" -> "v" [] c = "W" -> "w" [] c = "X" -> "x"
      [] c = "Y" -> "y" [] c = "Z" -> "z" [] c = "Á" -> "á" [] c = "Ã" -> "ã"
      [] c = "É" -> "é" [] c = "Í" -> "í" [] c = "Ó" -> "ó" [] c = "Õ" -> "õ"
      [] c = "Ú" -> "ú" [] c = "Ç" -> "ç"
      [] OTHER -> c

\* String.prototype.toUpperCase, one character
UpperChar(c) ==
    CASE c = "a" -> "A" [] c = "b" -> "B" [] c = "c" -> "C" [] c = "d" -> "D"
      [] c = "e" -> "E" [] c = "f" -> "F" [] c = "g" -> "G" [] c = "h" -> "H"
      [] c = "i" -> "I" [] c = "j" -> "J" [] c = "k" -> "K" [] c = "l" -> "L"
      [] c = "m" -> "M" [] c = "n" -> "N" [] c = "o" -> "O" [] c = "p" -> "P"
      [] c = "q" -> "Q" [] c = "r" -> "R" [] c = "s" -> "S" [] c = "t" -> "T"
      [] c = "u" -> "U" [] c = "v" -> "V" [] c = "w" -> "W" [] c = "x" -> "X"
      [] c = "y" -> "Y" [] c = "z" -> "Z" [] c = "á" -> "Á" [] c = "ã" -> "Ã"
      [] c = "é" -> "É" [] c = "í" -> "Í" [] c = "ó" -> "Ó" [] c = "õ" -> "Õ"
      [] c = "ú" -> "Ú" [] c = "ç" -> "Ç"
      [] OTHER -> c

\* the table `acentos` of normalizarDescricao
SemAcento(c) ==
    CASE c = "á" -> "a" [] c = "à" -> "a" [] c = "â" -> "a" [] c = "ã" -> "a"
      [] c = "ä" -> "a" [] c = "é" -> "e" [] c = "è" -> "e" [] c = "ê" -> "e"
      [] c = "ë" -> "e" [] c = "í" -> "i" [] c = "ì" -> "i" [] c = "î" -> "i"
      [] c = "ï" -> "i" [] c = "ó" -> "o" [] c = "ò" -> "o" [] c = "ô" -> "o"
      [] c = "õ" -> "o" [] c = "ö" -> "o" [] c = "ú" -> "u" [] c = "ù" -> "u"
      [] c = "û" -> "u" [] c = "ü" -> "u" [] c = "ç" -> "c" [] c = "ñ" -> "n"
      [] OTHER -> c

toLowerCase(s) == [i \in 1..Len(s) |-> LowerChar(s[i])]

toUpperCase(s) == [i \in 1..Len(s) |-> UpperChar(s[i])]

RECURSIVE trimStart(_)
trimStart(s) ==
    IF s # <<>> /\ Head(s) = " " THEN trimStart(Tail(s)) ELSE s

RECURSIVE trimEnd(_)
trimEnd(s) ==
    IF s # <<>> /\ s[Len(s)] = " " THEN trimEnd(SubSeq(s, 1, Len(s) - 1)) ELSE s

trim(s) == trimEnd(trimStart(s))

startsWith(s, prefix) ==
    /\ Len(prefix) <= Len(s)
    /\ SubSeq(s, 1, Len(prefix)) = prefix

includes(s, t) ==
    \E i \in 0..(Len(s) - Len(t)) : SubSeq(s, i + 1, i + Len(t)) = t

\* s.split(/\s+/) without the empty pieces: the maximal runs of non-blanks
RECURSIVE SplitWords(_,_,_)
SplitWords(s, cur, acc) ==
    IF s = <<>> THEN (IF cur = <<>> THEN acc ELSE Append(acc, cur))
    ELSE IF Head(s) = " "
         THEN SplitWords(Tail(s), <<>>, IF cur = <<>> THEN acc ELSE Append(acc, cur))
         ELSE SplitWords(Tail(s), Append(cur, Head(s)), acc)

Words(s) == SplitWords(s, <<>>, <<>>)

RECURSIVE JoinWords(_)
JoinWords(ws) ==
    IF ws = <<>> THEN <<>>
    ELSE IF Len(ws) = 1 THEN ws[1]
    ELSE ws[1] \o <<" ">> \o JoinWords(Tail(ws))

Abs(x) == IF x < 0 THEN -x ELSE x

Min2(a, b) == IF a <= b THEN a ELSE b

----------------------------------------------------------------------------
(* Keys of comparador/motor.js *)

\* the words the third replace of normalizarDescricao deletes when no digit
\* follows them
PalavrasPgt ==
    { <<"p","g","t">>, <<"p","g","t","o">>, <<"p","a","g","t","o">> }

\* normalizarDescricao, for descriptions made of letters and blanks: with no
\* digit and no bullet in the text the DOC, CNPJ/CPF and NU PAGAMENTOS/IP/
\* AGENCIA/CONTA patterns need a digit and match nothing, and the PGT pattern
\* matches exactly the whole words pgt, pgto and pagto (with the blanks after
\* them).
normalizarDescricao(descricao) ==
    IF descricao = <<>> THEN <<>>
    ELSE LET lower == trim(toLowerCase(descricao))
             semAcento == [i \in 1..Len(lower) |-> SemAcento(lower[i])]
         IN  JoinWords(SelectSeq(Words(semAcento),
                                 LAMBDA w : w \notin PalavrasPgt))

\* Math.round(valor * 100) / 100 on half-cents: a half goes up
RoundCents(valor) == ((valor + 1) \div 2) * 2

chavePrincipal(lancamento) == <<lancamento.data, RoundCents(lancamento.valor)>>

\* the empty tuple stands for the null key
chaveDocumento(lancamento) ==
    IF trim(lancamento.documento) = <<>> THEN <<>>
    ELSE <<lancamento.data, toUpperCase(trim(lancamento.documento))>>

chaveDescricao(lancamento) ==
    <<lancamento.data, normalizarDescricao(lancamento.descricao)>>

\* map.get(chave) of the indexes built by lancRazao.forEach: the positions
\* holding that key (visited in increasing order)
indiceDocRazao(raz, chave) ==
    { idx \in 1..Len(raz) : chaveDocumento(raz[idx]) = chave }

indiceDescRazao(raz, chave) ==
    { idx \in 1..Len(raz) : chaveDescricao(raz[idx]) = chave }

indiceRazao(raz, chave) ==
    { idx \in 1..Len(raz) : chavePrincipal(raz[idx]) = chave }

\* the first position of a for..of / for loop over `indices` that reaches its
\* break; 0 when the loop runs to its end
Primeiro(indices) ==
    IF indices = {} THEN 0
    ELSE CHOOSE i \in indices : \A j \in indices : i <= j

Divergencia(tipo, idxExt, idxRaz) == [tipo |-> tipo, ext |-> idxExt, raz |-> idxRaz]

----------------------------------------------------------------------------
(* compararLancamentos: the five passes *)

\* the 1.0 of `diffValor > 1.0`, in half-cents
UmReal == 200

\* one iteration of lancExtrato.forEach in detectarValorDiferente: the ledger
\* position the statement transaction idxExt is reported against, by document
\* first and by normalized description otherwise (0: none)
ValorDiferenteMatch(ext, raz, tol, cas, idxExt) ==
    LET lancExt == ext[idxExt]
        chaveDoc == chaveDocumento(lancExt)
        porDoc ==
            IF chaveDoc = <<>> THEN 0
            ELSE Primeiro({ idxRaz \in indiceDocRazao(raz, chaveDoc) :
                              /\ <<idxExt, idxRaz>> \notin cas
                              /\ Abs(lancExt.valor - raz[idxRaz].valor) > tol })
        porDesc ==
            Primeiro({ idxRaz \in indiceDescRazao(raz, chaveDescricao(lancExt)) :
                         /\ <<idxExt, idxRaz>> \notin cas
                         /\ Abs(lancExt.valor - raz[idxRaz].valor) > tol
                         /\ Abs(lancExt.valor - raz[idxRaz].valor) > UmReal })
    IN  IF porDoc # 0 THEN porDoc ELSE porDesc

RECURSIVE detectarValorDiferente(_,_,_,_,_,_)
detectarValorDiferente(ext, raz, tol, cas, divs, idxExt) ==
    IF idxExt > Len(ext) THEN [casados |-> cas, divergencias |-> divs]
    ELSE LET idxRaz == ValorDiferenteMatch(ext, raz, tol, cas, idxExt)
         IN  IF idxRaz = 0
             THEN detectarValorDiferente(ext, raz, tol, cas, divs, idxExt + 1)
             ELSE detectarValorDiferente(ext, raz, tol,
                      cas \cup {<<idxExt, idxRaz>>},
                      Append(divs, Divergencia("VALOR_DIFERENTE", idxExt, idxRaz)),
                      idxExt + 1)

\* one iteration of lancExtrato.forEach in compararPorDataValor: the ledger
\* position paired with idxExt (0: none).  The tolerance scan is the else
\* branch of the exact lookup.
DataValorMatch(ext, raz, tol, cas, razNaoCasados, idxExt) ==
    LET lancExt == ext[idxExt]
        chave == chavePrincipal(lancExt)
        exatos == indiceRazao(raz, chave)
    IN  IF exatos # {}
        THEN Primeiro({ idxRaz \in exatos :
                          /\ idxRaz \in razNaoCasados
                          /\ <<idxExt, idxRaz>> \notin cas })
        ELSE Primeiro({ idxRaz \in 1..Len(raz) :
                          /\ idxRaz \in razNaoCasados
                          /\ <<idxExt, idxRaz>> \notin cas
                          /\ lancExt.data = raz[idxRaz].data
                          /\ Abs(lancExt.valor - raz[idxRaz].valor) <= tol })

RECURSIVE compararPorDataValor(_,_,_,_,_,_,_)
compararPorDataValor(ext, raz, tol, cas, extNaoCasados, razNaoCasados, idxExt) ==
    IF idxExt > Len(ext)
    THEN [casados |-> cas,
          indicesExtratoNaoCasados |-> extNaoCasados,
          indicesRazaoNaoCasados |-> razNaoCasados]
    ELSE LET idxRaz == DataValorMatch(ext, raz, tol, cas, razNaoCasados, idxExt)
         IN  IF idxExt \notin extNaoCasados \/ idxRaz = 0
             THEN compararPorDataValor(ext, raz, tol, cas,
                      extNaoCasados, razNaoCasados, idxExt + 1)
             ELSE compararPorDataValor(ext, raz, tol,
                      cas \cup {<<idxExt, idxRaz>>},
                      extNaoCasados \ {idxExt}, razNaoCasados \ {idxRaz},
                      idxExt + 1)

\* Set.forEach and Array.forEach visit in insertion order, here increasing
RECURSIVE EmOrdem(_)
EmOrdem(indices) ==
    IF indices = {} THEN <<>>
    ELSE LET i == Primeiro(indices)
         IN  <<i>> \o EmOrdem(indices \ {i})

\* the missing pass without its second loop
detectarFaltantesSoExtrato(extNaoCasados, razNaoCasados) ==
    LET e == EmOrdem(extNaoCasados)
    IN  [k \in 1..Len(e) |-> Divergencia("NAO_ENCONTRADO_DOMINIO", e[k], 0)]

detectarFaltantes(extNaoCasados, razNaoCasados) ==
    LET e == EmOrdem(extNaoCasados)
        r == EmOrdem(razNaoCasados)
    IN  [k \in 1..Len(e) |-> Divergencia("NAO_ENCONTRADO_DOMINIO", e[k], 0)]
        \o [k \in 1..Len(r) |-> Divergencia("NAO_ENCONTRADO_EXTRATO", 0, r[k])]

\* the running balances a list carries (saldo is <<>> where the code has
\* null or undefined)
Saldos(lista) ==
    LET com == SelectSeq(lista, LAMBDA l : l.saldo # <<>>)
    IN  [i \in 1..Len(com) |-> com[i].saldo[1]]

compararSaldos(ext, raz, tol) ==
    LET saldosExtrato == Saldos(ext)
        saldosRazao == Saldos(raz)
    IN  IF saldosExtrato = <<>> \/ saldosRazao = <<>> THEN <<>>
        ELSE LET diffInicial == Abs(saldosExtrato[1] - saldosRazao[1])
                 diffFinal == Abs(saldosExtrato[Len(saldosExtrato)]
                                  - saldosRazao[Len(saldosRazao)])
             IN  IF diffInicial > tol \/ diffFinal > tol
                 THEN <<Divergencia("SALDO_DIVERGENTE", 0, 0)>>
                 ELSE <<>>

palavrasSuspeitas ==
    { <<"t","a","r","i","f","a">>, <<"t","a","x","a">>,
      <<"e","n","c","a","r","g","o">>, <<"j","u","r","o","s">>,
      <<"m","u","l","t","a">>, <<"i","o","f">>,
      <<"c","o","b","r","a","n","ç","a">>,
      <<"m","a","n","u","t","e","n","ç","ã","o">>,
      <<"a","n","u","i","d","a","d","e">>,
      <<"s","e","r","v","i","ç","o"," ","b","a","n","c","á","r","i","o">> }

contasGenericas == { <<"1">>, <<"9">>, <<"0">>, <<"0","0">>, <<"0","0","0">> }

ClassificacaoSuspeita(lanc) ==
    LET descLower == normalizarDescricao(lanc.descricao)
        temPalavraSuspeita == \E palavra \in palavrasSuspeitas : includes(descLower, palavra)
        contaClean == trim(lanc.conta_contabil)
        contaOk == /\ lanc.conta_contabil # <<>>
                   /\ contaClean \notin contasGenericas
                   /\ Len(contaClean) >= 3
    IN  /\ lanc.origem \in {"dominio", "otimiza"}
        /\ temPalavraSuspeita
        /\ ~contaOk

detectarClassificacaoSuspeita(raz) ==
    LET r == EmOrdem({ i \in 1..Len(raz) : ClassificacaoSuspeita(raz[i]) })
    IN  [k \in 1..Len(r) |-> Divergencia("CLASSIFICACAO_SUSPEITA", 0, r[k])]

----------------------------------------------------------------------------
(* compareBankVsTxt: similarity and score *)

\* A ratio is <<numerator, denominator>> with a positive denominator.
FracLess(a, b) == a[1] * b[2] < b[1] * a[2]

FracMax(a, b) == IF FracLess(a, b) THEN b ELSE a

FracMin(a, b) == IF FracLess(b, a) THEN b ELSE a

Range(f) == { f[i] : i \in DOMAIN f }

\* the inner function similarity(str1, str2) of compareBankVsTxt
similarity(str1, str2) ==
    IF str1 = <<>> \/ str2 = <<>> THEN <<0, 1>>
    ELSE
    LET str1Norm == trim(normalizarDescricao(str1))
        str2Norm == trim(normalizarDescricao(str2))
        shorter == IF Len(str1Norm) < Len(str2Norm) THEN str1Norm ELSE str2Norm
        longer == IF Len(str1Norm) >= Len(str2Norm) THEN str1Norm ELSE str2Norm
        words1 == SelectSeq(Words(str1Norm), LAMBDA w : Len(w) > 2)
        words2 == SelectSeq(Words(str2Norm), LAMBDA w : Len(w) > 2)
        wInter == Range(words1) \cap Range(words2)
        wUnion == Range(words1) \cup Range(words2)
        wordSimilarity == <<Cardinality(wInter), Cardinality(wUnion)>>
        cInter == Range(str1Norm) \cap Range(str2Norm)
        cUnion == Range(str1Norm) \cup Range(str2Norm)
    IN  IF /\ Len(str1Norm) > 0 /\ Len(str2Norm) > 0
           /\ (includes(str1Norm, str2Norm) \/ includes(str2Norm, str1Norm))
        THEN IF Len(shorter) >= 8
             THEN FracMax(<<75, 100>>, <<Len(shorter), Len(longer)>>)
             ELSE FracMax(<<7, 10>>, <<Len(shorter), Len(longer)>>)
        ELSE IF /\ Len(str1Norm) > 0 /\ Len(str2Norm) > 0
                /\ (startsWith(str1Norm, str2Norm) \/ startsWith(str2Norm, str1Norm))
                /\ Len(shorter) >= 8
        THEN FracMax(<<8, 10>>, <<Len(shorter), Len(longer)>>)
        ELSE IF Len(words1) > 0 /\ Len(words2) > 0
        THEN IF wInter # {} /\ (Len(words1) <= 2 \/ Len(words2) <= 2)
             THEN FracMax(wordSimilarity, <<6, 10>>)
             ELSE wordSimilarity
        ELSE IF cUnion # {} THEN <<Cardinality(cInter), Cardinality(cUnion)>>
             ELSE <<0, 1>>

\* descricao.trim().split(/\s+/)[0].toUpperCase(), '' for an absent description
PrimeiraPalavra(descricao) ==
    LET ws == Words(trim(descricao))
    IN  IF ws = <<>> THEN <<>> ELSE toUpperCase(ws[1])

\* the threshold the candidate's similarity is compared with (motor.js 603-615)
adjustedThreshold(movBank, movTxt, minSim) ==
    LET descBankShort == movBank.descricao # <<>> /\ Len(movBank.descricao) <= 5
        descTxtShort == movTxt.descricao # <<>> /\ Len(movTxt.descricao) <= 5
        descBankWords == PrimeiraPalavra(movBank.descricao)
        descTxtWords == PrimeiraPalavra(movTxt.descricao)
        startsWithSameWord == /\ descBankWords # <<>>
                              /\ descTxtWords # <<>>
                              /\ descBankWords = descTxtWords
                              /\ Len(descBankWords) >= 8
    IN  IF descBankShort \/ descTxtShort \/ startsWithSameWord
        THEN FracMin(<<4, 10>>, <<minSim[1] * 7, minSim[2] * 10>>)
        ELSE minSim

----------------------------------------------------------------------------
(* A comparison that is not running *)

FuzzyIdle ==
    /\ bankMovements = <<>>
    /\ txtMovements = <<>>
    /\ dateWindowDays = 0
    /\ amountTolerance = 0
    /\ minDescriptionSimilarity = <<0, 1>>
    /\ allowManyToOne = FALSE
    /\ casadosBank = {}
    /\ casadosTxt = {}
    /\ melhorMatch = <<>>
    /\ idxBank = 0
    /\ pcFuzzy = "idle"

ValidaIdle ==
    /\ chartOfAccounts = {}
    /\ accountValidationRules = <<>>
    /\ lancamentosOtimiza = <<>>
    /\ source = ""
    /\ idxValida = 0
    /\ accountValidationResults = <<>>
    /\ okCount = 0
    /\ invalidCount = 0
    /\ unknownCount = 0
    /\ dbQueries = {}
    /\ pcValida = "idle"

ParseIdle ==
    /\ valorStr = <<>>
    /\ valorOtimiza = <<>>
    /\ valorCsv = <<>>
    /\ valorPdf = <<>>

JobIdle ==
    /\ comparacoes = <<>>
    /\ tabelaDivergencias = <<>>
    /\ tabelaValidacoes = <<>>
    /\ disco = {}
    /\ relogio = 0
    /\ worker = <<>>
    /\ pedidosDelete = <<>>

PdfIdle == chamadasPdf = <<>>

TxtIdle ==
    /\ txtLinhas = <<>>
    /\ txtStrict = FALSE
    /\ txtNumLinha = 0
    /\ txtLancamentos = <<>>
    /\ txtIssues = <<>>
    /\ txtEfeitos = <<>>
    /\ pcTxt = "idle"

LedgerIdle ==
    /\ ledgerArquivos = <<>>
    /\ ledgerFalhas = {}
    /\ ledgerUnicos = <<>>
    /\ ledgerIssues = <<>>
    /\ pcLedger = "idle"

LeitorIdle == PdfIdle /\ TxtIdle /\ LedgerIdle

StrictIdle ==
    /\ lancExtrato = <<>>
    /\ lancRazao = <<>>
    /\ toleranciaValor = 0
    /\ casados = {}
    /\ indicesExtratoNaoCasados = {}
    /\ indicesRazaoNaoCasados = {}
    /\ pcStrict = "idle"

----------------------------------------------------------------------------
(* Inputs of compararLancamentos *)

MaxExtrato == 2

MaxRazao == 2

SeqsUpTo(S, n) == UNION { [1..k -> S] : k \in 0..n }

sNF100 == <<"N","F","1","0","0">>

sLuz == <<"L","U","Z">>

Lanc(data, valor, documento, descricao, conta, origem, saldo) ==
    [data |-> data, valor |-> valor, documento |-> documento,
     descricao |-> descricao, conta_contabil |-> conta, origem |-> origem,
     saldo |-> saldo]

\* statement transactions: 2024-03-01 is day 1; -155.00 is -31000
ExtratoUniverse ==
    { Lanc(1, -31000, sNF100, sLuz, <<>>, "mpds", <<>>),
      Lanc(1, -30000, <<>>, <<"T","A","R","I","F","A">>, <<>>, "mpds", <<20000>>),
      Lanc(1, -30001, <<"n","f","1","0","0"," ">>,
           <<"P","a","g","t","o"," ","L","u","z">>, <<>>, "mpds", <<>>),
      Lanc(2, -30002, <<>>, <<"J","U","R","O","S">>, <<>>, "mpds", <<>>) }

\* ledger transactions
RazaoUniverse ==
    { Lanc(1, -30000, sNF100, sLuz, <<"1",".","1",".","1">>, "dominio", <<>>),
      Lanc(1, -30400, <<>>, <<"T","a","r","i","f","a">>, <<"1">>, "otimiza", <<20000>>),
      Lanc(2, -30000, <<>>, <<"J","U","R","O","S">>, <<>>, "otimiza", <<18000>>),
      Lanc(1, -31000, <<>>, <<"A","G","U","A">>, <<"2",".","1">>, "mpds", <<>>),
      Lanc(2, -500, <<>>, <<"C","o","b","r","a","n","ç","a">>, <<"0","0","0">>,
           "dominio", <<>>) }

\* 0, 0.01 (the default) and 3.00
Tolerancias == {0, 2, 600}

----------------------------------------------------------------------------
(* compararLancamentos as a sequence of its passes *)

StrictInit ==
    /\ lancExtrato \in SeqsUpTo(ExtratoUniverse, MaxExtrato)
    /\ lancRazao \in SeqsUpTo(RazaoUniverse, MaxRazao)
    /\ toleranciaValor \in Tolerancias
    /\ casados = {}
    /\ indicesExtratoNaoCasados = {}
    /\ indicesRazaoNaoCasados = {}
    /\ divergencias = <<>>
    /\ pcStrict = "valorDiferente"
    /\ FuzzyIdle
    /\ ValidaIdle
    /\ ParseIdle
    /\ JobIdle
    /\ LeitorIdle

\* 1. divergencias.push(...detectarValorDiferente(...))
PassValorDiferente ==
    /\ pcStrict = "valorDiferente"
    /\ LET r == detectarValorDiferente(lancExtrato, lancRazao, toleranciaValor,
                                       casados, <<>>, 1)
       IN  /\ casados' = r.casados
           /\ divergencias' = divergencias \o r.divergencias
    /\ pcStrict' = "dataValor"
    /\ UNCHANGED <<lancExtrato, lancRazao, toleranciaValor,
                   indicesExtratoNaoCasados, indicesRazaoNaoCasados>>
    /\ UNCHANGED fuzzyVars
    /\ UNCHANGED validaVars
    /\ UNCHANGED parseVars
    /\ UNCHANGED jobVars
    /\ UNCHANGED leitorVars

\* 2. compararPorDataValor starts from every index of both lists
PassDataValor ==
    /\ pcStrict = "dataValor"
    /\ LET r == compararPorDataValor(lancExtrato, lancRazao, toleranciaValor, casados,
                                     1..Len(lancExtrato), 1..Len(lancRazao), 1)
       IN  /\ casados' = r.casados
           /\ indicesExtratoNaoCasados' = r.indicesExtratoNaoCasados
           /\ indicesRazaoNaoCasados' = r.indicesRazaoNaoCasados
    /\ pcStrict' = "faltantes"
    /\ UNCHANGED <<lancExtrato, lancRazao, toleranciaValor, divergencias>>
    /\ UNCHANGED fuzzyVars
    /\ UNCHANGED validaVars
    /\ UNCHANGED parseVars
    /\ UNCHANGED jobVars
    /\ UNCHANGED leitorVars

\* 3. divergencias.push(...detectarFaltantes(...))
PassFaltantes ==
    /\ pcStrict = "faltantes"
    /\ divergencias' = divergencias
                       \o detectarFaltantes(indicesExtratoNaoCasados, indicesRazaoNaoCasados)
    /\ pcStrict' = "saldos"
    /\ UNCHANGED <<lancExtrato, lancRazao, toleranciaValor, casados,
                   indicesExtratoNaoCasados, indicesRazaoNaoCasados>>
    /\ UNCHANGED fuzzyVars
    /\ UNCHANGED validaVars
    /\ UNCHANGED parseVars
    /\ UNCHANGED jobVars
    /\ UNCHANGED leitorVars

\* 4. divergencias.push(...compararSaldos(...))
PassSaldos ==
    /\ pcStrict = "saldos"
    /\ divergencias' = divergencias \o compararSaldos(lancExtrato, lancRazao, toleranciaValor)
    /\ pcStrict' = "suspeita"
    /\ UNCHANGED <<lancExtrato, lancRazao, toleranciaValor, casados,
                   indicesExtratoNaoCasados, indicesRazaoNaoCasados>>
    /\ UNCHANGED fuzzyVars
    /\ UNCHANGED validaVars
    /\ UNCHANGED parseVars
    /\ UNCHANGED jobVars
    /\ UNCHANGED leitorVars

\* 5. divergencias.push(...detectarClassificacaoSuspeita(lancRazao)); return
PassClassificacaoSuspeita ==
    /\ pcStrict = "suspeita"
    /\ divergencias' = divergencias \o detectarClassificacaoSuspeita(lancRazao)
    /\ pcStrict' = "done"
    /\ UNCHANGED <<lancExtrato, lancRazao, toleranciaValor, casados,
                   indicesExtratoNaoCasados, indicesRazaoNaoCasados>>
    /\ UNCHANGED fuzzyVars
    /\ UNCHANGED validaVars
    /\ UNCHANGED parseVars
    /\ UNCHANGED jobVars
    /\ UNCHANGED leitorVars

StrictNext ==
    \/ PassValorDiferente
    \/ PassDataValor
    \/ PassFaltantes
    \/ PassSaldos
    \/ PassClassificacaoSuspeita

SpecStrict == StrictInit /\ [][StrictNext]_vars

----------------------------------------------------------------------------
(* Claims about compararLancamentos *)

DivergenciasDe(tipos, lado, idx) ==
    { k \in DOMAIN divergencias :
        divergencias[k].tipo \in tipos /\ divergencias[k][lado] = idx }

TiposPorLancamento ==
    {"VALOR_DIFERENTE", "NAO_ENCONTRADO_DOMINIO", "NAO_ENCONTRADO_EXTRATO",
     "CLASSIFICACAO_SUSPEITA"}

\* C1: when compararLancamentos returns, every statement transaction and every
\* ledger transaction is cited by at most one divergence of the returned list
\* (VALOR_DIFERENTE, NAO_ENCONTRADO_DOMINIO, NAO_ENCONTRADO_EXTRATO,
\* CLASSIFICACAO_SUSPEITA).
C1_AtMostOneDivergence ==
    pcStrict = "done" =>
        /\ \A i \in 1..Len(lancExtrato) :
               Cardinality(DivergenciasDe(TiposPorLancamento, "ext", i)) <= 1
        /\ \A i \in 1..Len(lancRazao) :
               Cardinality(DivergenciasDe(TiposPorLancamento, "raz", i)) <= 1

\* the pairs reported as VALOR_DIFERENTE
ParesValorDiferente ==
    { <<divergencias[k].ext, divergencias[k].raz>> :
        k \in { j \in DOMAIN divergencias : divergencias[j].tipo = "VALOR_DIFERENTE" } }

\* C2: a VALOR_DIFERENTE divergence consumes both of its records: neither is
\* paired with another transaction by the date+amount pass, and neither is
\* reported as NAO_ENCONTRADO_DOMINIO / NAO_ENCONTRADO_EXTRATO.
C2_ValorDiferenteConsumes ==
    pcStrict = "done" =>
        \A p \in ParesValorDiferente :
            /\ \A q \in casados \ ParesValorDiferente : q[1] # p[1] /\ q[2] # p[2]
            /\ DivergenciasDe({"NAO_ENCONTRADO_DOMINIO"}, "ext", p[1]) = {}
            /\ DivergenciasDe({"NAO_ENCONTRADO_EXTRATO"}, "raz", p[2]) = {}

\* the ledger positions still unpaired when compararPorDataValor reaches
\* statement position i: what the pass leaves after the positions before i
RazaoDisponivelEm(i) ==
    compararPorDataValor(SubSeq(lancExtrato, 1, i - 1), lancRazao, toleranciaValor,
                         casados, 1..(i - 1), 1..Len(lancRazao), 1).indicesRazaoNaoCasados

\* C20: the date+amount pass leaves a statement transaction unpaired only if,
\* when it is processed, no still-unpaired ledger transaction has the same
\* date and an amount within toleranciaValor (also when the exact key is in
\* the index but every ledger transaction under it was already consumed).
C20_UnpairedOnlyIfNoneWithinTolerance ==
    [][ (pcStrict = "dataValor" /\ pcStrict' = "faltantes") =>
            \A i \in indicesExtratoNaoCasados' :
                ~\E r \in RazaoDisponivelEm(i) :
                      /\ lancExtrato[i].data = lancRazao[r].data
                      /\ Abs(lancExtrato[i].valor - lancRazao[r].valor) <= toleranciaValor
      ]_vars


\* the pairs detectarValorDiferente recorded before the date+amount pass
CasadosValorDiferente ==
    detectarValorDiferente(lancExtrato, lancRazao, toleranciaValor, {}, <<>>, 1).casados

\* the pairs the date+amount pass made
ParesDataValor ==
    compararPorDataValor(lancExtrato, lancRazao, toleranciaValor, CasadosValorDiferente,
                         1..Len(lancExtrato), 1..Len(lancRazao), 1).casados
    \ CasadosValorDiferente

\* the ledger positions the pass could still take when it reached statement
\* position i
DisponiveisEm(i) ==
    { r \in compararPorDataValor(SubSeq(lancExtrato, 1, i - 1), lancRazao, toleranciaValor,
                                 CasadosValorDiferente, 1..(i - 1), 1..Len(lancRazao),
                                 1).indicesRazaoNaoCasados :
        <<i, r>> \notin CasadosValorDiferente }

DentroDaTolerancia(i, r) ==
    /\ lancExtrato[i].data = lancRazao[r].data
    /\ Abs(lancExtrato[i].valor - lancRazao[r].valor) <= toleranciaValor

ChaveExata(i, r) == chavePrincipal(lancExtrato[i]) = chavePrincipal(lancRazao[r])

FaltantesEmitidos == pcStrict \in {"saldos", "suspeita", "done"}

\* one-to-one pairs, and one missing divergence for each position left out
UmParaUmEFaltantes(pares) ==
    /\ \A p, q \in pares : (p[1] = q[1]) <=> (p[2] = q[2])
    /\ \A i \in 1..Len(lancExtrato) :
           Cardinality(DivergenciasDe({"NAO_ENCONTRADO_DOMINIO"}, "ext", i))
               = IF \E p \in pares : p[1] = i THEN 0 ELSE 1
    /\ \A r \in 1..Len(lancRazao) :
           Cardinality(DivergenciasDe({"NAO_ENCONTRADO_EXTRATO"}, "raz", r))
               = IF \E p \in pares : p[2] = r THEN 0 ELSE 1

SemAcentos(s) == [i \in 1..Len(s) |-> SemAcento(s[i])]

\* a ledger transaction of origin dominio or otimiza whose description holds
\* a keyword, letters compared without case and accents, and whose account
\* code is absent, shorter than 3 characters or generic
DeveSerSuspeita(lanc) ==
    /\ lanc.origem \in {"dominio", "otimiza"}
    /\ \E palavra \in palavrasSuspeitas :
           includes(SemAcentos(toLowerCase(lanc.descricao)), SemAcentos(palavra))
    /\ \/ lanc.conta_contabil = <<>>
       \/ Len(trim(lanc.conta_contabil)) < 3
       \/ trim(lanc.conta_contabil) \in contasGenericas

\* C22: detectarClassificacaoSuspeita emits exactly one CLASSIFICACAO_SUSPEITA
\* for every ledger transaction (origin dominio or otimiza) whose description
\* contains a keyword of the list, compared case- and accent-insensitively,
\* and whose account code is absent, shorter than 3 characters or generic;
\* and none for any other transaction.
C22_SuspeitaIffKeywordAndWeakAccount ==
    pcStrict = "done" =>
        \A r \in 1..Len(lancRazao) :
            Cardinality(DivergenciasDe({"CLASSIFICACAO_SUSPEITA"}, "raz", r))
                = IF DeveSerSuspeita(lancRazao[r]) THEN 1 ELSE 0

----------------------------------------------------------------------------
(* Inputs of compareBankVsTxt *)

MaxBank == 2

MaxTxt == 2

Mov(data, valor, descricao) == [data |-> data, valor |-> valor, descricao |-> descricao]

sPix == <<"P","I","X">>

sTed == <<"T","E","D">>

sDeposito == <<"D","E","P","O","S","I","T","O">>

\* bank movements: 2024-03-05 is day 5; 200.00 is 40000 and 1.00 is 200
BankUniverse ==
    { Mov(5, 40000, sPix),
      Mov(5, 40004, sDeposito \o <<" ","A","B","C"," ","D","E","F">>),
      Mov(8, 200, sTed) }

\* ledger (TXT) movements
TxtUniverse ==
    { Mov(6, 40000, <<"P","i","x"," ","R","e","c","e","b","i","d","o">>),
      Mov(5, 40000, sDeposito \o <<" ","A","B","C"," ","X","Y","Z">>),
      Mov(8, 40000, sPix),
      Mov(6, 400, <<"D","O","C">>) }

\* same day only, and the default of two days
DateWindows == {0, 2}

\* 0.01 (the default) and 1.00
AmountTolerances == {2, 200}

\* 0 and 0.55 (the default)
MinSimilarities == { <<0, 1>>, <<55, 100>> }

\* Math.abs(differenceInDays(dataBank, dataTxt)) on calendar dates
DiffDias(movBank, movTxt) == Abs(movBank.data - movTxt.data)

DiffValor(movBank, movTxt) == Abs(movBank.valor - movTxt.valor)

\* the candidate passes the three early returns of the inner forEach that
\* the filters without the date window
PassaFiltrosSemJanela(movBank, movTxt, window, tol, minSim, sim) ==
    /\ ~(DiffValor(movBank, movTxt) > tol)
    /\ ~FracLess(sim, adjustedThreshold(movBank, movTxt, minSim))

\* the filters without the similarity threshold
PassaFiltrosSemSimilaridade(movBank, movTxt, window, tol, minSim, sim) ==
    /\ ~(DiffDias(movBank, movTxt) > window)
    /\ ~(DiffValor(movBank, movTxt) > tol)

\* look at the two transactions (date window, amount tolerance, similarity)
PassaFiltros(movBank, movTxt, window, tol, minSim, sim) ==
    /\ ~(DiffDias(movBank, movTxt) > window)
    /\ ~(DiffValor(movBank, movTxt) > tol)
    /\ ~FracLess(sim, adjustedThreshold(movBank, movTxt, minSim))

\* score = sim*0.7 + (1 - diffDias/window)*0.2 + (1 - diffValor/|valor|)*0.1.
\* With window = 0 (so diffDias = 0) or valor = 0 a division by zero makes the
\* score NaN or -Infinity, and `score > melhorScore` is then false: finite tells
\* the two cases apart.  A finite score is kept multiplied by
\* 10 * window * |valor|, the same positive factor for every candidate of one
\* bank movement, as the ratio <<num, den>>.
Score(movBank, movTxt, window, sim) ==
    LET v == Abs(movBank.valor)
    IN  IF window = 0 \/ v = 0 THEN [finite |-> FALSE, val |-> <<0, 1>>]
        ELSE [finite |-> TRUE,
              val |-> << 7 * sim[1] * window * v
                         + ( 2 * (window - DiffDias(movBank, movTxt)) * v
                             + (v - DiffValor(movBank, movTxt)) * window ) * sim[2],
                         sim[2] >>]

\* score > melhorScore
ScoreGreater(score, melhorScore) ==
    score.finite /\ FracLess(melhorScore, score.val)

\* txtMovements.forEach of one bank movement, from position idxTxt on:
\* the position kept in melhorMatch (0 for null)
RECURSIVE MelhorMatchFrom(_,_,_,_,_,_,_,_,_,_)
MelhorMatchFrom(movBank, txt, window, tol, minSim, manyToOne, casTxt, idxTxt, melhorIdx, melhorScore) ==
    IF idxTxt > Len(txt) THEN melhorIdx
    ELSE LET movTxt == txt[idxTxt]
             sim == similarity(movBank.descricao, movTxt.descricao)
             score == Score(movBank, movTxt, window, sim)
         IN  IF /\ ~(idxTxt \in casTxt /\ ~manyToOne)
                /\ PassaFiltros(movBank, movTxt, window, tol, minSim, sim)
                /\ ScoreGreater(score, melhorScore)
             THEN MelhorMatchFrom(movBank, txt, window, tol, minSim, manyToOne, casTxt,
                                  idxTxt + 1, idxTxt, score.val)
             ELSE MelhorMatchFrom(movBank, txt, window, tol, minSim, manyToOne, casTxt,
                                  idxTxt + 1, melhorIdx, melhorScore)

\* the search that never skips a ledger position already in casadosTxt
MelhorMatchSemConsumo(movBank, txt, window, tol, minSim, manyToOne, casTxt) ==
    MelhorMatchFrom(movBank, txt, window, tol, minSim, TRUE, casTxt,
                    1, 0, <<0, 1>>)

\* let melhorMatch = null; let melhorScore = 0; txtMovements.forEach(...)
MelhorMatch(movBank, txt, window, tol, minSim, manyToOne, casTxt) ==
    MelhorMatchFrom(movBank, txt, window, tol, minSim, manyToOne, casTxt,
                    1, 0, <<0, 1>>)

----------------------------------------------------------------------------
(* compareBankVsTxt: one step per iteration of bankMovements.forEach, then *)
(* the closing txtMovements.forEach                                        *)

FuzzyInit ==
    /\ bankMovements \in SeqsUpTo(BankUniverse, MaxBank)
    /\ txtMovements \in SeqsUpTo(TxtUniverse, MaxTxt)
    /\ dateWindowDays \in DateWindows
    /\ amountTolerance \in AmountTolerances
    /\ minDescriptionSimilarity \in MinSimilarities
    /\ allowManyToOne \in BOOLEAN
    /\ casadosBank = {}
    /\ casadosTxt = {}
    /\ melhorMatch = <<>>
    /\ idxBank = 1
    /\ divergencias = <<>>
    /\ pcFuzzy = "bank"
    /\ StrictIdle
    /\ ValidaIdle
    /\ ParseIdle
    /\ JobIdle
    /\ LeitorIdle

\* the body of bankMovements.forEach for position idxBank
BankIteration ==
    /\ pcFuzzy = "bank"
    /\ idxBank <= Len(bankMovements)
    /\ LET m == IF idxBank \in casadosBank THEN 0
                ELSE MelhorMatch(bankMovements[idxBank], txtMovements, dateWindowDays,
                                 amountTolerance, minDescriptionSimilarity,
                                 allowManyToOne, casadosTxt)
       IN  /\ melhorMatch' = Append(melhorMatch, m)
           /\ IF idxBank \in casadosBank
              THEN UNCHANGED <<casadosBank, casadosTxt, divergencias>>
              ELSE IF m # 0
              THEN /\ casadosBank' = casadosBank \cup {idxBank}
                   /\ casadosTxt' = casadosTxt \cup {m}
                   /\ UNCHANGED divergencias
              ELSE /\ divergencias' = Append(divergencias,
                                         Divergencia("NAO_ENCONTRADO_DOMINIO", idxBank, 0))
                   /\ UNCHANGED <<casadosBank, casadosTxt>>
    /\ idxBank' = idxBank + 1
    /\ UNCHANGED <<bankMovements, txtMovements, dateWindowDays, amountTolerance,
                   minDescriptionSimilarity, allowManyToOne, pcFuzzy>>
    /\ UNCHANGED strictVars
    /\ UNCHANGED validaVars
    /\ UNCHANGED parseVars
    /\ UNCHANGED jobVars
    /\ UNCHANGED leitorVars

\* the closing loop reporting every ledger position
FaltantesTxtTodos(txt, casTxt) ==
    [k \in 1..Len(txt) |-> Divergencia("NAO_ENCONTRADO_EXTRATO", 0, k)]

\* the closing txtMovements.forEach: one NAO_ENCONTRADO_EXTRATO for each
\* position that is not in casadosTxt
FaltantesTxt(txt, casTxt) ==
    LET r == EmOrdem({ idxTxt \in 1..Len(txt) : idxTxt \notin casTxt })
    IN  [k \in 1..Len(r) |-> Divergencia("NAO_ENCONTRADO_EXTRATO", 0, r[k])]

\* txtMovements.forEach(...); return divergencias
TxtFaltantes ==
    /\ pcFuzzy = "bank"
    /\ idxBank > Len(bankMovements)
    /\ divergencias' = divergencias \o FaltantesTxt(txtMovements, casadosTxt)
    /\ pcFuzzy' = "done"
    /\ UNCHANGED <<bankMovements, txtMovements, dateWindowDays, amountTolerance,
                   minDescriptionSimilarity, allowManyToOne, casadosBank, casadosTxt,
                   melhorMatch, idxBank>>
    /\ UNCHANGED strictVars
    /\ UNCHANGED validaVars
    /\ UNCHANGED parseVars
    /\ UNCHANGED jobVars
    /\ UNCHANGED leitorVars

FuzzyNext ==
    \/ BankIteration
    \/ TxtFaltantes

SpecFuzzy == FuzzyInit /\ [][FuzzyNext]_vars

----------------------------------------------------------------------------
(* Claims about compareBankVsTxt *)

\* the bank positions whose iteration of the outer forEach has finished
Processados == 1..Len(melhorMatch)

\* casadosTxt as it was when the iteration of bank position i started
CasadosTxtAntes(i) == { melhorMatch[j] : j \in 1..(i - 1) } \ {0}

SimDe(i, t) == similarity(bankMovements[i].descricao, txtMovements[t].descricao)

\* C3: no bank transaction is matched to a ledger transaction whose date
\* differs by more than dateWindowDays or whose amount differs by more than
\* amountTolerance, whatever the similarity of the descriptions.
C3_MatchWithinWindowAndTolerance ==
    \A i \in Processados :
        melhorMatch[i] # 0 =>
            /\ DiffDias(bankMovements[i], txtMovements[melhorMatch[i]]) <= dateWindowDays
            /\ DiffValor(bankMovements[i], txtMovements[melhorMatch[i]]) <= amountTolerance

\* a bank transaction was compared with a ledger transaction of the same
\* description three days away under a window of two days, and another with a
\* ledger transaction similar enough whose amount is out of tolerance; neither
\* pair was matched
C3_Witness ==
    /\ pcFuzzy = "done"
    /\ dateWindowDays > 0
    /\ \E i \in Processados : \E t \in 1..Len(txtMovements) :
           /\ DiffDias(bankMovements[i], txtMovements[t]) > dateWindowDays
           /\ DiffValor(bankMovements[i], txtMovements[t]) <= amountTolerance
           /\ ~FracLess(SimDe(i, t), <<1, 1>>)
           /\ melhorMatch[i] # t
    /\ \E i \in Processados : \E t \in 1..Len(txtMovements) :
           /\ DiffDias(bankMovements[i], txtMovements[t]) <= dateWindowDays
           /\ DiffValor(bankMovements[i], txtMovements[t]) > amountTolerance
           /\ ~FracLess(SimDe(i, t), adjustedThreshold(bankMovements[i], txtMovements[t],
                                                       minDescriptionSimilarity))
           /\ melhorMatch[i] # t

\* C4 as stated: no bank transaction is matched to a ledger transaction whose
\* similarity is below the minDescriptionSimilarity the caller passed.
C4_NoMatchBelowMinSimilarity ==
    \A i \in Processados :
        melhorMatch[i] # 0 =>
            ~FracLess(SimDe(i, melhorMatch[i]), minDescriptionSimilarity)

\* C4 amended: no bank transaction is matched to a ledger transaction whose
\* similarity is below the threshold the matcher applies to the pair, which is
\* minDescriptionSimilarity, or min(0.4, 0.7 * minDescriptionSimilarity) when
\* either description has at most 5 characters or both start with the same
\* word of at least 8 characters.
C4_NoMatchBelowAdjustedThreshold ==
    \A i \in Processados :
        melhorMatch[i] # 0 =>
            ~FracLess(SimDe(i, melhorMatch[i]),
                      adjustedThreshold(bankMovements[i], txtMovements[melhorMatch[i]],
                                        minDescriptionSimilarity))

\* a match whose similarity lies between the lowered threshold and
\* minDescriptionSimilarity, and a candidate inside window and tolerance that
\* was left out for a similarity below the lowered threshold
C4_Witness ==
    /\ pcFuzzy = "done"
    /\ \E i \in Processados :
           /\ melhorMatch[i] # 0
           /\ FracLess(SimDe(i, melhorMatch[i]), minDescriptionSimilarity)
    /\ \E i \in Processados : \E t \in 1..Len(txtMovements) :
           /\ DiffDias(bankMovements[i], txtMovements[t]) <= dateWindowDays
           /\ DiffValor(bankMovements[i], txtMovements[t]) <= amountTolerance
           /\ FracLess(SimDe(i, t), adjustedThreshold(bankMovements[i], txtMovements[t],
                                                      minDescriptionSimilarity))
           /\ melhorMatch[i] = 0

\* the ledger positions that were eligible for bank position i when its
\* iteration ran
Elegiveis(i) ==
    { t \in 1..Len(txtMovements) :
        /\ ~(t \in CasadosTxtAntes(i) /\ ~allowManyToOne)
        /\ PassaFiltros(bankMovements[i], txtMovements[t], dateWindowDays,
                        amountTolerance, minDescriptionSimilarity, SimDe(i, t)) }

\* C5: every bank transaction with at least one eligible ledger candidate is
\* matched, to a candidate of maximum composite score, for every parameter
\* value (dateWindowDays = 0 and candidates of score zero or less included).
C5_EligibleIsMatchedToBest ==
    \A i \in Processados :
        Elegiveis(i) # {} =>
            /\ melhorMatch[i] \in Elegiveis(i)
            /\ \A t \in Elegiveis(i) :
                   ~ScoreGreater(
                       Score(bankMovements[i], txtMovements[t], dateWindowDays, SimDe(i, t)),
                       Score(bankMovements[i], txtMovements[melhorMatch[i]],
                             dateWindowDays, SimDe(i, melhorMatch[i])).val)

\* the ledger positions some bank transaction chose
Escolhidos == Range(melhorMatch) \ {0}

\* C6: the returned list holds exactly one NAO_ENCONTRADO_DOMINIO for each bank
\* transaction that found no match, exactly one NAO_ENCONTRADO_EXTRATO for each
\* ledger transaction no bank transaction chose, and nothing else.
C6_DivergenciasAreTheUnmatched ==
    pcFuzzy = "done" =>
        /\ \A k \in DOMAIN divergencias :
               \/ /\ divergencias[k].tipo = "NAO_ENCONTRADO_DOMINIO"
                  /\ divergencias[k].ext \in Processados
                  /\ divergencias[k].raz = 0
               \/ /\ divergencias[k].tipo = "NAO_ENCONTRADO_EXTRATO"
                  /\ divergencias[k].ext = 0
                  /\ divergencias[k].raz \in 1..Len(txtMovements)
        /\ \A i \in 1..Len(bankMovements) :
               Cardinality(DivergenciasDe({"NAO_ENCONTRADO_DOMINIO"}, "ext", i))
                   = IF melhorMatch[i] = 0 THEN 1 ELSE 0
        /\ \A t \in 1..Len(txtMovements) :
               Cardinality(DivergenciasDe({"NAO_ENCONTRADO_EXTRATO"}, "raz", t))
                   = IF t \in Escolhidos THEN 0 ELSE 1

\* a finished comparison with a matched pair, an unmatched bank transaction
\* and an unchosen ledger transaction
C6_Witness ==
    /\ pcFuzzy = "done"
    /\ Escolhidos # {}
    /\ \E i \in Processados : melhorMatch[i] = 0
    /\ \E t \in 1..Len(txtMovements) : t \notin Escolhidos
    /\ Len(divergencias) = 2

\* C7: a chosen match consumes the bank transaction, and with allowManyToOne
\* false the ledger transaction too: no ledger transaction is the match of two
\* bank transactions.
C7_MatchConsumes ==
    /\ \A i \in Processados :
           melhorMatch[i] # 0 => i \in casadosBank /\ melhorMatch[i] \in casadosTxt
    /\ ~allowManyToOne =>
           \A i, j \in Processados :
               (i # j /\ melhorMatch[i] # 0) => melhorMatch[i] # melhorMatch[j]

\* with allowManyToOne false, a later bank transaction found its only
\* candidate already chosen by an earlier one and stayed unmatched
C7_Witness ==
    /\ pcFuzzy = "done"
    /\ ~allowManyToOne
    /\ \E i, j \in Processados :
           /\ i < j
           /\ melhorMatch[i] # 0
           /\ melhorMatch[j] = 0
           /\ PassaFiltros(bankMovements[j], txtMovements[melhorMatch[i]], dateWindowDays,
                           amountTolerance, minDescriptionSimilarity,
                           SimDe(j, melhorMatch[i]))


----------------------------------------------------------------------------
(* Account validation: validateAccountExists, findMatchingRules,           *)
(* validateAccountAgainstRules, validateLancamentosAccounts                *)

\* !accountCode || !accountCode.trim()
CodigoVazio(accountCode) == accountCode = <<>> \/ trim(accountCode) = <<>>

\* SELECT * FROM chart_of_accounts
\*   WHERE account_code = ? AND source = ? AND is_active = 1
validateAccountExists(accountCode, src, chart) ==
    IF CodigoVazio(accountCode) THEN FALSE
    ELSE \E row \in chart :
             /\ row.account_code = trim(accountCode)
             /\ row.source = src
             /\ row.is_active

\* a JSON text column: NULL, a text JSON.parse rejects, or the text of an array
ColunaNula == [kind |-> "null", list |-> <<>>]

ColunaInvalida == [kind |-> "invalid", list |-> <<>>]

ColunaLista(list) == [kind |-> "array", list |-> list]

\* if (column) { try { x = JSON.parse(column) } catch (e) { x = [] } }
ParseColuna(coluna) == IF coluna.kind = "array" THEN coluna.list ELSE <<>>

\* lancamento[regra.match_field]; <<>> stands for undefined
MatchValue(lancamento, regra) ==
    IF regra.match_field \in DOMAIN lancamento THEN lancamento[regra.match_field]
    ELSE <<>>

\* matchValue && String(matchValue).trim().toUpperCase()
\*                === String(regra.match_value).trim().toUpperCase()
RegraCorresponde(lancamento, regra) ==
    /\ MatchValue(lancamento, regra) # <<>>
    /\ toUpperCase(trim(MatchValue(lancamento, regra)))
           = toUpperCase(trim(regra.match_value))

\* the rule pushed to matchingRules: the row with its four lists parsed
RegraParsed(regra, id) ==
    [id |-> id,
     match_field |-> regra.match_field,
     match_value |-> regra.match_value,
     allowed_account_prefixes |-> ParseColuna(regra.allowed_account_prefixes),
     allowed_account_codes |-> ParseColuna(regra.allowed_account_codes),
     blocked_account_prefixes |-> ParseColuna(regra.blocked_account_prefixes),
     blocked_account_codes |-> ParseColuna(regra.blocked_account_codes)]

\* SELECT * FROM account_validation_rules WHERE is_enabled = 1, then the
\* rules.forEach that keeps the rows matching the transaction; the id of a
\* row is its position in the table
findMatchingRules(lancamento, tabela) ==
    LET r == EmOrdem({ k \in 1..Len(tabela) :
                         /\ tabela[k].is_enabled
                         /\ RegraCorresponde(lancamento, tabela[k]) })
    IN  [j \in 1..Len(r) |-> RegraParsed(tabela[r[j]], r[j])]

\* array.includes(accountCode)
NaLista(lista, accountCode) == \E k \in DOMAIN lista : lista[k] = accountCode

\* some prefix of the list has accountCode.startsWith(prefix)
TemPrefixo(lista, accountCode) == \E k \in DOMAIN lista : startsWith(accountCode, lista[k])

\* the allowed flag computed at the top of the loop body
Allowed(accountCode, regra) ==
    \/ NaLista(regra.allowed_account_codes, accountCode)
    \/ TemPrefixo(regra.allowed_account_prefixes, accountCode)

\* the body of `for (const regra of rules)` that lets a listed code through
\* before looking at the blocked lists
VerificaRegraPermitidoPrimeiro(accountCode, regra) ==
    IF Allowed(accountCode, regra) THEN "pass"
    ELSE IF NaLista(regra.blocked_account_codes, accountCode) THEN "blocked_code"
    ELSE IF TemPrefixo(regra.blocked_account_prefixes, accountCode) THEN "blocked_prefix"
    ELSE "not_allowed"

\* the body that lets a code through when the rule has no allow list
VerificaRegraSemListaPassa(accountCode, regra) ==
    IF NaLista(regra.blocked_account_codes, accountCode) THEN "blocked_code"
    ELSE IF TemPrefixo(regra.blocked_account_prefixes, accountCode) THEN "blocked_prefix"
    ELSE IF regra.allowed_account_codes = <<>> /\ regra.allowed_account_prefixes = <<>>
    THEN "pass"
    ELSE IF ~Allowed(accountCode, regra) THEN "not_allowed"
    ELSE "pass"

\* the body of `for (const regra of rules)`: which return it takes, if any
VerificaRegra(accountCode, regra) ==
    IF NaLista(regra.blocked_account_codes, accountCode) THEN "blocked_code"
    ELSE IF TemPrefixo(regra.blocked_account_prefixes, accountCode) THEN "blocked_prefix"
    ELSE IF ~Allowed(accountCode, regra) THEN "not_allowed"
    ELSE "pass"

\* the object validateAccountAgainstRules returns; rule_id 0 stands for no
\* meta.rule_id
Resultado(status, reason_code, rule_id, violacao, rules_applied) ==
    [status |-> status, reason_code |-> reason_code, rule_id |-> rule_id,
     violacao |-> violacao, rules_applied |-> rules_applied]

\* for (const regra of rules) { ... } return { status: 'ok', ... }
RECURSIVE AplicaRegras(_,_,_)
AplicaRegras(accountCode, rules, k) ==
    IF k > Len(rules)
    THEN Resultado("ok", "VALID", 0, "", [j \in 1..Len(rules) |-> rules[j].id])
    ELSE IF VerificaRegra(accountCode, rules[k]) # "pass"
    THEN Resultado("invalid", "RULE_VIOLATION", rules[k].id,
                   VerificaRegra(accountCode, rules[k]), <<>>)
    ELSE AplicaRegras(accountCode, rules, k + 1)

\* the validation that stops after the first rule
validateAccountAgainstRulesPrimeira(accountCode, rules) ==
    IF CodigoVazio(accountCode)
    THEN Resultado("unknown", "MISSING_ACCOUNT_CODE", 0, "", <<>>)
    ELSE IF Len(rules) = 0
    THEN Resultado("unknown", "NO_RULE_MATCH", 0, "", <<>>)
    ELSE AplicaRegras(trim(accountCode), SubSeq(rules, 1, 1), 1)

validateAccountAgainstRules(accountCode, rules) ==
    IF CodigoVazio(accountCode)
    THEN Resultado("unknown", "MISSING_ACCOUNT_CODE", 0, "", <<>>)
    ELSE IF Len(rules) = 0
    THEN Resultado("unknown", "NO_RULE_MATCH", 0, "", <<>>)
    ELSE AplicaRegras(trim(accountCode), rules, 1)

\* const accountCode = lancamento.account_code || lancamento.conta_contabil
CodigoDoLancamento(lancamento) ==
    IF lancamento.account_code # <<>> THEN lancamento.account_code
    ELSE lancamento.conta_contabil

\* the row given to createAccountValidationResult
Linha(idx, account_code, resultado) ==
    [idx |-> idx, account_code |-> account_code, status |-> resultado.status,
     reason_code |-> resultado.reason_code, rule_id |-> resultado.rule_id,
     violacao |-> resultado.violacao, rules_applied |-> resultado.rules_applied]

\* the loop body that looks for rules without looking the account up
ValidaLancamentoSemPlano(lancamento, idx, src, chart, tabela) ==
    LET accountCode == CodigoDoLancamento(lancamento)
    IN  IF CodigoVazio(accountCode)
        THEN [linha |-> Linha(idx, <<>>,
                              Resultado("unknown", "MISSING_ACCOUNT_CODE", 0, "", <<>>)),
              queries |-> {}]
        ELSE [linha |-> Linha(idx, trim(accountCode),
                              validateAccountAgainstRules(trim(accountCode),
                                  findMatchingRules(lancamento, tabela))),
              queries |-> {<<idx, "account_validation_rules">>}]

\* the body of the for loop of validateLancamentosAccounts: the row written
\* and the tables queried
ValidaLancamento(lancamento, idx, src, chart, tabela) ==
    LET accountCode == CodigoDoLancamento(lancamento)
    IN  IF CodigoVazio(accountCode)
        THEN [linha |-> Linha(idx, <<>>,
                              Resultado("unknown", "MISSING_ACCOUNT_CODE", 0, "", <<>>)),
              queries |-> {}]
        ELSE IF ~validateAccountExists(trim(accountCode), src, chart)
        THEN [linha |-> Linha(idx, trim(accountCode),
                              Resultado("invalid", "ACCOUNT_NOT_FOUND", 0, "", <<>>)),
              queries |-> {<<idx, "chart_of_accounts">>}]
        ELSE [linha |-> Linha(idx, trim(accountCode),
                              validateAccountAgainstRules(trim(accountCode),
                                  findMatchingRules(lancamento, tabela))),
              queries |-> {<<idx, "chart_of_accounts">>,
                           <<idx, "account_validation_rules">>}]

----------------------------------------------------------------------------
(* Inputs of validateLancamentosAccounts *)

MaxLancamentos == 2

MaxRules == 2

s11 == <<"1",".","1">>

s21 == <<"2",".","1">>

s999 == <<"9",".","9",".","9">>

sPagamento == <<"P","A","G","A","M","E","N","T","O">>

sTarifa == <<"T","A","R","I","F","A">>

\* 1.1 is active for dominio only, 2.1 for both sources, 9.9.9 for none
ChartUniverse ==
    { [account_code |-> s11, source |-> "dominio", is_active |-> TRUE],
      [account_code |-> s11, source |-> "otimiza", is_active |-> FALSE],
      [account_code |-> s21, source |-> "dominio", is_active |-> TRUE],
      [account_code |-> s21, source |-> "otimiza", is_active |-> TRUE] }

Sources == {"dominio", "otimiza"}

LancOtimiza(account_code, conta_contabil, event_type, category) ==
    [account_code |-> account_code, conta_contabil |-> conta_contabil,
     event_type |-> event_type, category |-> category]

LancamentoUniverse ==
    { LancOtimiza(s11, <<>>, sPagamento, sTarifa),
      LancOtimiza(<<>>, <<" ">> \o s21 \o <<" ">>,
                  <<"p","a","g","a","m","e","n","t","o"," ">>, sTarifa),
      LancOtimiza(<<" ">>, s11, sPagamento, <<>>),
      LancOtimiza(s999, <<>>, sPagamento, <<>>),
      LancOtimiza(s21, <<>>, <<>>, <<>>) }

Regra(is_enabled, match_field, match_value, allowed_account_prefixes, allowed_account_codes, blocked_account_prefixes, blocked_account_codes) ==
    [is_enabled |-> is_enabled, match_field |-> match_field,
     match_value |-> match_value,
     allowed_account_prefixes |-> allowed_account_prefixes,
     allowed_account_codes |-> allowed_account_codes,
     blocked_account_prefixes |-> blocked_account_prefixes,
     blocked_account_codes |-> blocked_account_codes]

RegraUniverse ==
    { \* payments may only use 1.1
      Regra(TRUE, "event_type", <<"p","a","g","a","m","e","n","t","o">>,
            ColunaNula, ColunaLista(<<s11>>), ColunaNula, ColunaNula),
      \* payments may use 1*, 2* and 9*, but 2.1 is blocked
      Regra(TRUE, "event_type", sPagamento,
            ColunaLista(<< <<"1">>, <<"2">>, <<"9">> >>), ColunaNula,
            ColunaNula, ColunaLista(<<s21>>)),
      \* fees may use 1.* and 2.*; the blocked prefixes are not valid JSON
      Regra(TRUE, "category", <<"T","a","r","i","f","a">>,
            ColunaLista(<< <<"1",".">>, <<"2",".">> >>), ColunaNula,
            ColunaInvalida, ColunaNula),
      \* disabled: blocks 1*
      Regra(FALSE, "event_type", sPagamento,
            ColunaNula, ColunaNula, ColunaLista(<< <<"1">> >>), ColunaNula),
      \* on a field the transactions here do not carry: blocks 1* and 2*
      Regra(TRUE, "entity_type", <<"F","O","R","N","E","C","E","D","O","R">>,
            ColunaNula, ColunaNula, ColunaLista(<< <<"1">>, <<"2">> >>), ColunaNula),
      \* payments may use 1.*, 2* is blocked
      Regra(TRUE, "event_type", sPagamento,
            ColunaLista(<< <<"1",".">> >>), ColunaInvalida,
            ColunaLista(<< <<"2">> >>), ColunaNula),
      \* fees: no allow list, 9.9.9 is blocked
      Regra(TRUE, "category", sTarifa,
            ColunaNula, ColunaLista(<<>>), ColunaNula, ColunaLista(<<s999>>)) }

----------------------------------------------------------------------------
(* validateLancamentosAccounts: one step per iteration of the for loop,    *)
(* then the return                                                         *)

ValidaInit ==
    /\ chartOfAccounts = ChartUniverse
    /\ accountValidationRules \in SeqsUpTo(RegraUniverse, MaxRules)
    /\ lancamentosOtimiza \in SeqsUpTo(LancamentoUniverse, MaxLancamentos)
    /\ source \in Sources
    /\ idxValida = 1
    /\ accountValidationResults = <<>>
    /\ okCount = 0
    /\ invalidCount = 0
    /\ unknownCount = 0
    /\ dbQueries = {}
    /\ pcValida = "loop"
    /\ divergencias = <<>>
    /\ StrictIdle
    /\ FuzzyIdle
    /\ ParseIdle
    /\ JobIdle
    /\ LeitorIdle

\* the body of the for loop for position idxValida
ValidaIteration ==
    /\ pcValida = "loop"
    /\ idxValida <= Len(lancamentosOtimiza)
    /\ LET v == ValidaLancamento(lancamentosOtimiza[idxValida], idxValida, source,
                                 chartOfAccounts, accountValidationRules)
       IN  /\ accountValidationResults' = Append(accountValidationResults, v.linha)
           /\ dbQueries' = dbQueries \cup v.queries
           /\ okCount' = IF v.linha.status = "ok" THEN okCount + 1 ELSE okCount
           /\ invalidCount' = IF v.linha.status = "invalid" THEN invalidCount + 1
                              ELSE invalidCount
           /\ unknownCount' = IF v.linha.status \notin {"ok", "invalid"}
                              THEN unknownCount + 1 ELSE unknownCount
    /\ idxValida' = idxValida + 1
    /\ UNCHANGED <<chartOfAccounts, accountValidationRules, lancamentosOtimiza, source,
                   pcValida, divergencias>>
    /\ UNCHANGED strictVars
    /\ UNCHANGED fuzzyVars
    /\ UNCHANGED parseVars
    /\ UNCHANGED jobVars
    /\ UNCHANGED leitorVars

\* return { total, ok: okCount, invalid: invalidCount, unknown: unknownCount }
ValidaReturn ==
    /\ pcValida = "loop"
    /\ idxValida > Len(lancamentosOtimiza)
    /\ pcValida' = "done"
    /\ UNCHANGED <<chartOfAccounts, accountValidationRules, lancamentosOtimiza, source,
                   idxValida, accountValidationResults, okCount, invalidCount,
                   unknownCount, dbQueries, divergencias>>
    /\ UNCHANGED strictVars
    /\ UNCHANGED fuzzyVars
    /\ UNCHANGED parseVars
    /\ UNCHANGED jobVars
    /\ UNCHANGED leitorVars

ValidaNext == ValidaIteration \/ ValidaReturn

SpecValida == ValidaInit /\ [][ValidaNext]_vars

----------------------------------------------------------------------------
(* Claims about the account validation *)

\* the matching rules of the transaction of row k
RegrasDe(k) == findMatchingRules(lancamentosOtimiza[k], accountValidationRules)

\* row k came out of validateAccountAgainstRules applied to at least one rule
RegrasAplicadas(k) ==
    /\ ~CodigoVazio(CodigoDoLancamento(lancamentosOtimiza[k]))
    /\ validateAccountExists(CodigoDoLancamento(lancamentosOtimiza[k]), source,
                             chartOfAccounts)
    /\ Len(RegrasDe(k)) >= 1

Bloqueia(regra, accountCode) ==
    \/ NaLista(regra.blocked_account_codes, accountCode)
    \/ TemPrefixo(regra.blocked_account_prefixes, accountCode)

Permite(regra, accountCode) ==
    \/ NaLista(regra.allowed_account_codes, accountCode)
    \/ TemPrefixo(regra.allowed_account_prefixes, accountCode)

Satisfaz(regra, accountCode) == ~Bloqueia(regra, accountCode) /\ Permite(regra, accountCode)

Permutacoes(n) == { f \in [1..n -> 1..n] : \A i, j \in 1..n : f[i] = f[j] => i = j }

\* C8: for a non-blank code and N >= 1 matching rules the status is ok iff the
\* code satisfies every one of the N rules (on no blocked list, on an allowed
\* list), it is invalid if any rule is violated, and the status is the same
\* for every order of the rules.
C8_OkIffAllRulesSatisfied ==
    \A k \in DOMAIN accountValidationResults :
        RegrasAplicadas(k) =>
            LET row == accountValidationResults[k]
                rules == RegrasDe(k)
            IN  /\ row.status = "ok"
                       <=> \A j \in DOMAIN rules : Satisfaz(rules[j], row.account_code)
                /\ (\E j \in DOMAIN rules : ~Satisfaz(rules[j], row.account_code))
                       => row.status = "invalid"
                /\ \A f \in Permutacoes(Len(rules)) :
                       validateAccountAgainstRules(row.account_code,
                           [j \in 1..Len(rules) |-> rules[f[j]]]).status = row.status

\* a transaction whose first matching rule is satisfied and whose second is
\* violated came out invalid, and another with two satisfied rules came out ok
C8_Witness ==
    /\ pcValida = "done"
    /\ \E k \in DOMAIN accountValidationResults :
           /\ RegrasAplicadas(k)
           /\ Len(RegrasDe(k)) >= 2
           /\ Satisfaz(RegrasDe(k)[1], accountValidationResults[k].account_code)
           /\ ~Satisfaz(RegrasDe(k)[2], accountValidationResults[k].account_code)
           /\ accountValidationResults[k].status = "invalid"
    /\ \E k \in DOMAIN accountValidationResults :
           /\ RegrasAplicadas(k)
           /\ Len(RegrasDe(k)) >= 2
           /\ accountValidationResults[k].status = "ok"

\* C9: each transaction is classified by a fixed precedence: blank code gives
\* unknown/MISSING_ACCOUNT_CODE without a query to chart or rules; else a
\* trimmed code with no active chart entry for the source gives
\* invalid/ACCOUNT_NOT_FOUND whatever the rules; else no enabled matching rule
\* gives unknown/NO_RULE_MATCH; only otherwise are the rules evaluated.
C9_ClassificationPrecedence ==
    \A k \in DOMAIN accountValidationResults :
        LET row == accountValidationResults[k]
            code == CodigoDoLancamento(lancamentosOtimiza[k])
            noPlano == \E c \in chartOfAccounts :
                           /\ c.account_code = trim(code)
                           /\ c.source = source
                           /\ c.is_active
        IN  IF code = <<>> \/ trim(code) = <<>>
            THEN /\ row.status = "unknown"
                 /\ row.reason_code = "MISSING_ACCOUNT_CODE"
                 /\ \A q \in dbQueries : q[1] # k
            ELSE IF ~noPlano
            THEN /\ row.status = "invalid"
                 /\ row.reason_code = "ACCOUNT_NOT_FOUND"
                 /\ <<k, "account_validation_rules">> \notin dbQueries
            ELSE IF Len(RegrasDe(k)) = 0
            THEN /\ row.status = "unknown"
                 /\ row.reason_code = "NO_RULE_MATCH"
            ELSE /\ row.reason_code \in {"VALID", "RULE_VIOLATION"}
                 /\ row.account_code = trim(code)

\* a blank code next to a usable conta_contabil came out MISSING_ACCOUNT_CODE,
\* and a code absent from the chart came out ACCOUNT_NOT_FOUND although every
\* rule matching its transaction is satisfied
C9_Witness ==
    /\ pcValida = "done"
    /\ \E k \in DOMAIN accountValidationResults :
           /\ accountValidationResults[k].reason_code = "MISSING_ACCOUNT_CODE"
           /\ lancamentosOtimiza[k].conta_contabil # <<>>
    /\ \E k \in DOMAIN accountValidationResults :
           /\ accountValidationResults[k].reason_code = "ACCOUNT_NOT_FOUND"
           /\ Len(RegrasDe(k)) >= 1
           /\ \A j \in DOMAIN RegrasDe(k) :
                  Satisfaz(RegrasDe(k)[j], accountValidationResults[k].account_code)
    /\ accountValidationRules # <<>>

\* C10 as stated: whenever some matching rule blocks the code, the result is
\* invalid/RULE_VIOLATION and the rule cited by rule_id is a rule whose blocked
\* lists contain the code.
C10_CitedRuleBlocksTheCode ==
    \A k \in DOMAIN accountValidationResults :
        LET row == accountValidationResults[k]
            rules == RegrasDe(k)
        IN  (/\ RegrasAplicadas(k)
             /\ \E j \in DOMAIN rules : Bloqueia(rules[j], row.account_code))
            => /\ row.status = "invalid"
               /\ row.reason_code = "RULE_VIOLATION"
               /\ \E j \in DOMAIN rules :
                      /\ rules[j].id = row.rule_id
                      /\ Bloqueia(rules[j], row.account_code)

\* C10 amended: whenever some matching rule blocks the code, the result is
\* invalid/RULE_VIOLATION and the rule cited by rule_id is the first matching
\* rule, in order, that the code violates (by being blocked or by not being
\* allowed); when that rule blocks the code it is cited as blocking, even if
\* it also lists the code as allowed.
C10_CitedRuleIsFirstViolated ==
    \A k \in DOMAIN accountValidationResults :
        LET row == accountValidationResults[k]
            rules == RegrasDe(k)
            violadas == { j \in DOMAIN rules : ~Satisfaz(rules[j], row.account_code) }
        IN  (/\ RegrasAplicadas(k)
             /\ \E j \in DOMAIN rules : Bloqueia(rules[j], row.account_code))
            => /\ row.status = "invalid"
               /\ row.reason_code = "RULE_VIOLATION"
               /\ row.rule_id = rules[Primeiro(violadas)].id
               /\ Bloqueia(rules[Primeiro(violadas)], row.account_code)
                      => row.violacao \in {"blocked_code", "blocked_prefix"}

\* after a satisfied rule, a rule that both allows and blocks the code is the
\* one cited
C10_Witness ==
    /\ pcValida = "done"
    /\ \E k \in DOMAIN accountValidationResults :
           /\ RegrasAplicadas(k)
           /\ Len(RegrasDe(k)) >= 2
           /\ Satisfaz(RegrasDe(k)[1], accountValidationResults[k].account_code)
           /\ Bloqueia(RegrasDe(k)[2], accountValidationResults[k].account_code)
           /\ Permite(RegrasDe(k)[2], accountValidationResults[k].account_code)
           /\ accountValidationResults[k].rule_id = RegrasDe(k)[2].id
           /\ accountValidationResults[k].status = "invalid"


\* a rule that only blocks: both allow lists are empty
SoBloqueia(regra) ==
    regra.allowed_account_codes = <<>> /\ regra.allowed_account_prefixes = <<>>

\* C29: when a matching rule has both allow lists empty,
\* validateAccountAgainstRules returns invalid/RULE_VIOLATION for every
\* account code given (a blank code is no code), also for codes on none of
\* the rule's blocked lists; so a row is ok only if every matching rule has an
\* allow list that is not empty and holds the code.
C29_BlockOnlyRuleRejectsEveryCode ==
    \A n \in 1..Len(accountValidationResults) :
        LET linha == accountValidationResults[n]
            lancamento == lancamentosOtimiza[linha.idx]
            accountCode == trim(CodigoDoLancamento(lancamento))
            rules == findMatchingRules(lancamento, accountValidationRules)
            resultado == validateAccountAgainstRules(accountCode, rules)
            porRegras == linha.reason_code \in { "VALID", "RULE_VIOLATION", "NO_RULE_MATCH" }
        IN  /\ (accountCode # <<>> /\ \E k \in DOMAIN rules : SoBloqueia(rules[k])) =>
                   /\ resultado.status = "invalid"
                   /\ resultado.reason_code = "RULE_VIOLATION"
                   /\ porRegras => /\ linha.status = "invalid"
                                   /\ linha.reason_code = "RULE_VIOLATION"
            /\ linha.status = "ok" =>
                   \A k \in DOMAIN rules :
                       /\ ~SoBloqueia(rules[k])
                       /\ Allowed(accountCode, rules[k])

\* a row is invalid because the code is not allowed by a rule that only
\* blocks, and the code is on neither blocked list of that rule
C29_Witness ==
    \E n \in 1..Len(accountValidationResults) :
        LET linha == accountValidationResults[n]
            lancamento == lancamentosOtimiza[linha.idx]
            rules == findMatchingRules(lancamento, accountValidationRules)
        IN  /\ linha.status = "invalid"
            /\ linha.reason_code = "RULE_VIOLATION"
            /\ linha.violacao = "not_allowed"
            /\ \E k \in DOMAIN rules :
                   /\ rules[k].id = linha.rule_id
                   /\ SoBloqueia(rules[k])
                   /\ rules[k].blocked_account_codes # <<>>
                   /\ ~NaLista(rules[k].blocked_account_codes, linha.account_code)
                   /\ ~TemPrefixo(rules[k].blocked_account_prefixes, linha.account_code)
----------------------------------------------------------------------------
(* Amount parsing: parseValor of otimizaTxtParser.js, mpdsCsvParser.js and  *)
(* mpdsPdfParser.js.  A parsed number is kept in units of 0.00001, next to  *)
(* a flag for NaN.                                                          *)

Digitos == {"0", "1", "2", "3", "4", "5", "6", "7", "8", "9"}

DigitVal(c) ==
    CASE c = "0" -> 0 [] c = "1" -> 1 [] c = "2" -> 2 [] c = "3" -> 3 [] c = "4" -> 4
      [] c = "5" -> 5 [] c = "6" -> 6 [] c = "7" -> 7 [] c = "8" -> 8 [] c = "9" -> 9

\* s.replace(/c/g, por)
RECURSIVE ReplaceAll(_,_,_)
ReplaceAll(s, c, por) ==
    IF s = <<>> THEN <<>>
    ELSE (IF Head(s) = c THEN por ELSE <<Head(s)>>) \o ReplaceAll(Tail(s), c, por)

\* s.replace(c, por): the first occurrence only
RECURSIVE ReplaceFirst(_,_,_)
ReplaceFirst(s, c, por) ==
    IF s = <<>> THEN <<>>
    ELSE IF Head(s) = c THEN por \o Tail(s)
    ELSE <<Head(s)>> \o ReplaceFirst(Tail(s), c, por)

\* s.lastIndexOf(c), positions from 0 and -1 for none
lastIndexOf(s, c) ==
    LET at == { i \in 1..Len(s) : s[i] = c }
    IN  IF at = {} THEN -1 ELSE (CHOOSE i \in at : \A k \in at : k <= i) - 1

TemChar(s, c) == \E i \in 1..Len(s) : s[i] = c

\* s.split(c): the lengths matter only; the pieces between the occurrences
RECURSIVE SplitBy(_,_,_,_)
SplitBy(s, c, cur, acc) ==
    IF s = <<>> THEN Append(acc, cur)
    ELSE IF Head(s) = c THEN SplitBy(Tail(s), c, <<>>, Append(acc, cur))
    ELSE SplitBy(Tail(s), c, Append(cur, Head(s)), acc)

\* the longest prefix of digits
RECURSIVE TakeDigits(_)
TakeDigits(s) ==
    IF s # <<>> /\ Head(s) \in Digitos THEN <<Head(s)>> \o TakeDigits(Tail(s)) ELSE <<>>

RECURSIVE IntOf(_,_)
IntOf(ds, acc) == IF ds = <<>> THEN acc ELSE IntOf(Tail(ds), acc * 10 + DigitVal(Head(ds)))

CasasDecimais == 5

Escala == 100000

NaN == [nan |-> TRUE, val |-> 0]

Num(val) == [nan |-> FALSE, val |-> val]

\* parseFloat(s): leading blanks, a sign, digits, a point and digits; the rest
\* of the string is ignored; NaN when no digit is found
parseFloat(s) ==
    LET t == trimStart(s)
        neg == t # <<>> /\ Head(t) = "-"
        u == IF t # <<>> /\ Head(t) \in {"-", "+"} THEN Tail(t) ELSE t
        inteiro == TakeDigits(u)
        resto == SubSeq(u, Len(inteiro) + 1, Len(u))
        fracao == IF resto # <<>> /\ Head(resto) = "." THEN TakeDigits(Tail(resto))
                  ELSE <<>>
        casas == SubSeq(fracao \o <<"0", "0", "0", "0", "0">>, 1, CasasDecimais)
        val == IntOf(inteiro, 0) * Escala + IntOf(casas, 0)
    IN  IF inteiro = <<>> /\ fracao = <<>> THEN NaN
        ELSE Num(IF neg THEN -val ELSE val)

\* negativo ? -num : num
ComSinal(negativo, num) ==
    IF num.nan THEN NaN ELSE Num(IF negativo THEN -num.val ELSE num.val)

\* the format detection shared by the TXT and the CSV parser, after the sign
\* was taken off
FormatoDetectado(valor) ==
    IF TemChar(valor, ",") /\ TemChar(valor, ".")
    THEN IF lastIndexOf(valor, ",") > lastIndexOf(valor, ".")
         THEN ReplaceFirst(ReplaceAll(valor, ".", <<>>), ",", <<".">>)
         ELSE ReplaceAll(valor, ",", <<>>)
    ELSE IF TemChar(valor, ",")
    THEN LET partes == SplitBy(valor, ",", <<>>, <<>>)
         IN  IF Len(partes) = 2 /\ Len(partes[2]) <= 2
             THEN ReplaceFirst(ReplaceAll(valor, ".", <<>>), ",", <<".">>)
             ELSE ReplaceAll(valor, ",", <<>>)
    ELSE valor

\* parseValor of otimizaTxtParser.js
parseValorOtimiza(str) ==
    IF str = <<>> \/ trim(str) = <<>> THEN Num(0)
    ELSE LET valor == trim(str)
             negativo == startsWith(valor, <<"-">>)
             semSinal == IF negativo THEN trim(Tail(valor)) ELSE valor
         IN  ComSinal(negativo, parseFloat(FormatoDetectado(semSinal)))

\* parseValor of mpdsCsvParser.js
parseValorCsv(str) ==
    IF str = <<>> \/ trim(str) = <<>> THEN Num(0)
    ELSE LET valor == trim(str)
             negativo == startsWith(valor, <<"-">>)
             semSinal == IF negativo THEN trim(Tail(valor)) ELSE valor
         IN  ComSinal(negativo, parseFloat(FormatoDetectado(semSinal)))

\* valor.replace(/[^\d.,R$DCdc\s-]/g, '')
SoValidos(s) ==
    SelectSeq(s, LAMBDA c : c \in Digitos \cup {".", ",", "R", "$", "D", "C", "d", "c", " ", "-"})

\* valor.replace(/R\$\s*/g, '')
RECURSIVE SemCifrao(_)
SemCifrao(s) ==
    IF s = <<>> THEN <<>>
    ELSE IF Len(s) >= 2 /\ s[1] = "R" /\ s[2] = "$"
    THEN SemCifrao(trimStart(SubSeq(s, 3, Len(s))))
    ELSE <<Head(s)>> \o SemCifrao(Tail(s))

\* s.replace(/^-+|-+$/g, '')
RECURSIVE SemHifens(_)
SemHifens(s) ==
    IF s # <<>> /\ Head(s) = "-" THEN SemHifens(Tail(s))
    ELSE IF s # <<>> /\ s[Len(s)] = "-" THEN SemHifens(SubSeq(s, 1, Len(s) - 1))
    ELSE s

\* s.replace(/\s*[Dd]\s*$/, '') and the same for C, on a string that ends with
\* that letter
SemLetraFinal(s) == trimEnd(SubSeq(s, 1, Len(s) - 1))

UltimoChar(s) == IF s = <<>> THEN "" ELSE s[Len(s)]

\* parseValor of mpdsPdfParser.js
parseValorPdf(str) ==
    IF str = <<>> \/ trim(str) = <<>> THEN Num(0)
    ELSE LET limpo == trim(SemCifrao(SoValidos(trim(str))))
             fimD == UltimoChar(limpo) \in {"D", "d"}
             hifen == UltimoChar(limpo) = "-" \/ startsWith(limpo, <<"-">>)
             fimC == UltimoChar(limpo) \in {"C", "c"}
             negativo == fimD \/ hifen
             semSinal == IF fimD THEN trim(SemLetraFinal(limpo))
                         ELSE IF hifen THEN trim(SemHifens(limpo))
                         ELSE IF fimC THEN trim(SemLetraFinal(limpo))
                         ELSE limpo
             semPontos == ReplaceAll(semSinal, ".", <<>>)
             valor == IF TemChar(semPontos, ",") THEN ReplaceFirst(semPontos, ",", <<".">>)
                      ELSE semPontos
             num == parseFloat(valor)
         IN  IF valor = <<>> \/ \E i \in 1..Len(valor) : valor[i] \notin Digitos \cup {"."}
             THEN Num(0)
             ELSE IF num.nan THEN Num(0)
             ELSE Num(IF negativo THEN -Abs(num.val) ELSE Abs(num.val))

----------------------------------------------------------------------------
(* Inputs of parseValor: a body between an optional prefix and suffix *)

sBrasileiro == <<"1", ".", "2", "3", "4", ",", "5", "6">>

sAmericano == <<"1", ",", "2", "3", "4", ".", "5", "6">>

sSoPonto == <<"1", ".", "2", "3", "4">>

ValorCorpos ==
    { sBrasileiro, sAmericano, sSoPonto,
      <<"1", "2", "3", "4", ",", "5">>,
      <<"1", "2", ",", "3", "4", "5">>,
      <<"0", ",", "5">>,
      <<"1", "0">>,
      <<>> }

ValorPrefixos == { <<>>, <<"-">>, <<"R", "$", " ">> }

ValorSufixos == { <<>>, <<" ", "D">>, <<" ">> }

ValorStrUniverse ==
    { p \o c \o f : p \in ValorPrefixos, c \in ValorCorpos, f \in ValorSufixos }

ParseInit ==
    /\ valorStr \in ValorStrUniverse
    /\ valorOtimiza = <<>>
    /\ valorCsv = <<>>
    /\ valorPdf = <<>>
    /\ divergencias = <<>>
    /\ StrictIdle
    /\ FuzzyIdle
    /\ ValidaIdle
    /\ JobIdle
    /\ LeitorIdle

\* the ledger TXT parser reads the amount
ParseOtimiza ==
    /\ valorOtimiza = <<>>
    /\ valorOtimiza' = <<parseValorOtimiza(valorStr)>>
    /\ UNCHANGED <<valorStr, valorCsv, valorPdf, divergencias>>
    /\ UNCHANGED <<strictVars, fuzzyVars, validaVars, jobVars, leitorVars>>

\* the statement CSV parser reads the amount
ParseCsv ==
    /\ valorCsv = <<>>
    /\ valorCsv' = <<parseValorCsv(valorStr)>>
    /\ UNCHANGED <<valorStr, valorOtimiza, valorPdf, divergencias>>
    /\ UNCHANGED <<strictVars, fuzzyVars, validaVars, jobVars, leitorVars>>

\* the statement PDF parser reads the amount
ParsePdf ==
    /\ valorPdf = <<>>
    /\ valorPdf' = <<parseValorPdf(valorStr)>>
    /\ UNCHANGED <<valorStr, valorOtimiza, valorCsv, divergencias>>
    /\ UNCHANGED <<strictVars, fuzzyVars, validaVars, jobVars, leitorVars>>

ParseNext == ParseOtimiza \/ ParseCsv \/ ParsePdf

SpecParse == ParseInit /\ [][ParseNext]_vars

\* the results of the parsers that ran
ValoresLidos == Range(valorOtimiza) \cup Range(valorCsv) \cup Range(valorPdf)

\* C17: every amount parser reads '1.234,56' as 1234.56, '1,234.56' as
\* 1234.56 and '1.234' as 1234: with both separators the right-most one is the
\* decimal point, and a lone dot separates thousands.
C17_ParsersAgreeOnLocale ==
    \A r \in ValoresLidos :
        /\ valorStr = sBrasileiro => r = Num(123456000)
        /\ valorStr = sAmericano => r = Num(123456000)
        /\ valorStr = sSoPonto => r = Num(123400000)


----------------------------------------------------------------------------
(* processarComparacao (workers/processarComparacao.js): the background run *)
(* that POST /comparacoes starts for the row it created.  Runs of different *)
(* comparisons share the database, the data directory and the clock.  One   *)
(* step is what a run does between two completions of asynchronous work (a  *)
(* database call, the CSV read stream); any such call may succeed or fail.  *)
(* Rows are never deleted here (DELETE /comparacoes/:id is left out), so    *)
(* getComparacaoById finds the row whenever it succeeds.                    *)

MaxJobs == 2

Jobs == 1..MaxJobs

MaxRelogio == 1

NULL == "NULL"

SQLITE_ERROR == "SQLITE_ERROR"

\* the error of an INSERT whose comparacao_id names no row
SQLITE_CONSTRAINT == "SQLITE_CONSTRAINT: FOREIGN KEY constraint failed"

NaoEncontrada == "Comparação não encontrada"

\* how many times processarComparacao is called again for an id
MaxExecucoes == 1

EIO == "EIO: i/o error, read"

\* a ledger transaction as parseOtimizaTxt returns it
LancJob(data, valor, descricao, account_code, event_type) ==
    [data |-> data, valor |-> valor, descricao |-> descricao,
     account_code |-> account_code, conta_contabil |-> <<>>,
     event_type |-> event_type, category |-> <<>>]

\* an uploaded file: its name and, standing for its bytes, what its parser
\* makes of them (fatal is the message the parser rejects with, or NULL)
Arquivo(filename, lancamentos, issues, fatal) ==
    [filename |-> filename, lancamentos |-> lancamentos, issues |-> issues,
     fatal |-> fatal]

\* an entry of allIssues: `[${arquivo}] ${texto}`, or the text alone
Issue(arquivo, texto, n) == [arquivo |-> arquivo, texto |-> texto, n |-> n]

nPagar == <<"p","a","g","a","r",".","t","x","t">>

nRazao == <<"r","a","z","a","o",".","t","x","t">>

nExtratoCsv == <<"e",".","C","S","V">>

nExtratoOfx == <<"e",".","o","f","x">>

\* one payable, written without sign, and one line that could not be read
oPagar ==
    Arquivo(nPagar, <<LancJob(5, 40000, sPix, s11, sPagamento)>>,
            <<"Linha 2: Erro ao parsear formato delimitado">>, NULL)

\* the same payable, signed, and a transfer without an account code
oRazao ==
    Arquivo(nRazao, <<LancJob(5, -40000, <<" ","p","i","x">>, s21, sPagamento),
                      LancJob(8, 200, sTed, <<>>, <<>>)>>, <<>>, NULL)

\* a CSV statement with the payable
eCsv == Arquivo(nExtratoCsv, <<Mov(5, -40000, sPix)>>, <<>>, NULL)

\* a CSV statement of the same name without a header line
eCsvVazio == Arquivo(nExtratoCsv, <<>>, <<>>, "Arquivo CSV vazio ou sem cabeçalho")

\* an OFX statement with the transfer, a deposit and a skipped transaction
eOfx ==
    Arquivo(nExtratoOfx, <<Mov(8, 200, sTed), Mov(6, 998, sDeposito)>>,
            <<"Transação 3: Data inválida">>, NULL)

\* req.files of POST /comparacoes: the ledger files and a statement
InputFilesUniverse ==
    { [otimiza |-> <<oPagar, oRazao>>, mpds |-> <<e>>] : e \in { eCsv, eCsvVazio, eOfx } }

\* the chart of accounts and the rule table the runs validate against:
\* payments may use 1.*, 2* is blocked
JobChart == ChartUniverse

JobRegras ==
    << Regra(TRUE, "event_type", sPagamento, ColunaLista(<< <<"1",".">> >>),
             ColunaNula, ColunaLista(<< <<"2">> >>), ColunaNula) >>

\* path.extname(fileName)
extname(fileName) ==
    LET i == lastIndexOf(fileName, ".")
    IN  IF i <= 0 THEN <<>> ELSE SubSeq(fileName, i + 1, Len(fileName))

\* the type the statement is parsed as: by extension, else the stored one
bankSourceType(comparacao, fileName) ==
    LET fileExt == toLowerCase(extname(fileName))
    IN  IF fileExt = <<".","c","s","v">> THEN "CSV"
        ELSE IF fileExt = <<".","o","f","x">> THEN "OFX"
        ELSE IF fileExt = <<".","p","d","f">> THEN "PDF"
        ELSE comparacao.bank_source_type

\* fs.writeFileSync(filePath, fileBuffer)
writeFileSync(d, filePath, conteudo) ==
    { e \in d : e.path # filePath } \cup { [path |-> filePath, conteudo |-> conteudo] }

\* fs.readFileSync / fs.createReadStream of a file that exists
readFile(d, filePath) == (CHOOSE e \in d : e.path = filePath).conteudo

\* the sign given by the name of the ledger file
NormalizaSinal(fileName, lancamentos) ==
    LET fileNameUpper == toUpperCase(fileName)
    IN  IF includes(fileNameUpper, <<"P","A","G","A","R">>)
        THEN [k \in 1..Len(lancamentos) |->
                 [lancamentos[k] EXCEPT !.valor = -Abs(@)]]
        ELSE IF includes(fileNameUpper, <<"R","E","C","E","B","E","R">>)
        THEN [k \in 1..Len(lancamentos) |->
                 [lancamentos[k] EXCEPT !.valor = Abs(@)]]
        ELSE lancamentos

\* issues.map(issue => `[${fileName}] ${issue}`)
ComArquivo(fileName, issues) ==
    [k \in 1..Len(issues) |-> Issue(fileName, issues[k], 0)]

\* the for loop over inputFiles.otimiza from position idx: each file is
\* written and parsed at once; a parse that rejects (falhas) becomes an issue
RECURSIVE LoopOtimiza(_,_,_,_,_,_)
LoopOtimiza(j, timestamp, arquivos, falhas, idx, acc) ==
    IF idx > Len(arquivos) THEN acc
    ELSE LET fileData == arquivos[idx]
             filePath == <<"otimiza", timestamp, idx, fileData.filename>>
             d == writeFileSync(acc.disco, filePath, [dono |-> j, arquivo |-> fileData])
             lido == readFile(d, filePath).arquivo
         IN  IF idx \in falhas
             THEN LoopOtimiza(j, timestamp, arquivos, falhas, idx + 1,
                      [acc EXCEPT !.disco = d,
                                  !.allIssues = Append(@, Issue(fileData.filename, "ERRO", 0)),
                                  !.erros = @ \cup {<<"parseOtimizaTxt", EIO>>}])
             ELSE LoopOtimiza(j, timestamp, arquivos, falhas, idx + 1,
                      [acc EXCEPT !.disco = d,
                                  !.lancamentosOtimiza =
                                      @ \o NormalizaSinal(fileData.filename, lido.lancamentos),
                                  !.allIssues =
                                      @ \o ComArquivo(fileData.filename, lido.issues)])

\* the key with the amount as it is
ChaveSemArredondar(lanc) ==
    LET desc == toUpperCase(trim(lanc.descricao))
    IN  <<lanc.data, SubSeq(desc, 1, Min2(50, Len(desc))), lanc.valor>>

\* the key of the duplicate removal
ChaveDuplicidade(lanc) ==
    LET desc == toUpperCase(trim(lanc.descricao))
    IN  <<lanc.data, SubSeq(desc, 1, Min2(50, Len(desc))), RoundCents(lanc.valor)>>

\* lancamentosUnicos: the first transaction of each key, in order
RECURSIVE RemoveDuplicados(_,_,_)
RemoveDuplicados(lancamentos, seen, unicos) ==
    IF lancamentos = <<>> THEN unicos
    ELSE LET chave == ChaveDuplicidade(Head(lancamentos))
         IN  IF chave \in seen THEN RemoveDuplicados(Tail(lancamentos), seen, unicos)
             ELSE RemoveDuplicados(Tail(lancamentos), seen \cup {chave},
                                   Append(unicos, Head(lancamentos)))

\* compareBankVsTxt as one function: the outer forEach from position idx, then
\* the closing loop over the ledger
RECURSIVE compareBankVsTxtFrom(_,_,_,_,_,_,_,_,_)
compareBankVsTxtFrom(bank, txt, window, tol, minSim, manyToOne, idx, casTxt, divs) ==
    IF idx > Len(bank) THEN divs \o FaltantesTxt(txt, casTxt)
    ELSE LET m == MelhorMatch(bank[idx], txt, window, tol, minSim, manyToOne, casTxt)
         IN  IF m # 0
             THEN compareBankVsTxtFrom(bank, txt, window, tol, minSim, manyToOne,
                                       idx + 1, casTxt \cup {m}, divs)
             ELSE compareBankVsTxtFrom(bank, txt, window, tol, minSim, manyToOne,
                                       idx + 1, casTxt,
                                       Append(divs, Divergencia("NAO_ENCONTRADO_DOMINIO", idx, 0)))

compareBankVsTxt(bank, txt, window, tol, minSim, manyToOne) ==
    compareBankVsTxtFrom(bank, txt, window, tol, minSim, manyToOne, 1, {}, <<>>)

\* the table comparacoes holds the row: it was inserted and not deleted
LinhaExiste(row) == row.status \notin {"ausente", "deletada"}

\* a connection that does not enforce foreign keys
ReferenciaSemPragma(row) == TRUE

\* FOREIGN KEY (comparacao_id) REFERENCES comparacoes (id) under
\* PRAGMA foreign_keys = ON: an INSERT is accepted only for a row that exists
ReferenciaValida(row) == LinhaExiste(row)

\* the update that does not write the status 'processing'
updateComparacaoStatusSemProcessing(row, status, erro, parsing_issues) ==
    [row EXCEPT !.status = IF status = "processing" THEN @ ELSE status,
                !.erro = IF erro # NULL THEN erro ELSE @,
                !.parsing_issues = IF parsing_issues # <<>> THEN parsing_issues ELSE @]

\* updateComparacaoStatus(id, status, erro, extras) on the row: erro is
\* written unless null, parsing_issues only when the extras carry them;
\* UPDATE ... WHERE id = ? changes nothing when no row has the id
updateComparacaoStatus(row, status, erro, parsing_issues) ==
    IF ~LinhaExiste(row) THEN row
    ELSE [row EXCEPT !.status = status,
                     !.erro = IF erro # NULL THEN erro ELSE @,
                     !.parsing_issues = IF parsing_issues # <<>> THEN parsing_issues ELSE @]

\* the locals of a run that has not started
WorkerInicial ==
    [pc |-> "nenhum", timestamp |-> 0, lancamentosOtimiza |-> <<>>, allIssues |-> <<>>,
     lancamentosExtrato |-> <<>>, filePath |-> <<>>, divergencias |-> <<>>,
     idxDiv |-> 1, idxVal |-> 1, okCount |-> 0, invalidCount |-> 0, unknownCount |-> 0,
     validationSummary |-> <<>>, error |-> NULL,
     \* not in the code: every error a stage raised, whose statement was
     \* parsed, whether the validation went through the whole ledger
     erros |-> {}, extratoDe |-> 0, validado |-> FALSE,
     \* not in the code: how many times the id was processed again
     execucao |-> 0]

\* catch (error) of processarComparacao: the write of 'erro' is under way
Catch(w, stage, message) ==
    [w EXCEPT !.pc = "erro", !.error = message, !.erros = @ \cup {<<stage, message>>}]

\* step 6 begins: validateLancamentosAccounts returns at once for an empty
\* ledger, else its first iteration is under way
IniciaValidacao(w) ==
    IF Len(w.lancamentosOtimiza) = 0
    THEN [w EXCEPT !.pc = "concluida", !.validado = TRUE,
                   !.validationSummary = <<[total |-> 0, ok |-> 0, invalid |-> 0, unknown |-> 0]>>]
    ELSE [w EXCEPT !.pc = "valida"]

\* the loop of step 5 that goes on to step 6 after one divergence
DepoisDeGravarSemEsperar(w) == IniciaValidacao([w EXCEPT !.idxDiv = @ + 1])

\* for (const div of divergencias): the next createDivergencia is under way,
\* or step 6 begins after the last one
DepoisDeGravar(w) ==
    IF w.idxDiv = Len(w.divergencias) THEN IniciaValidacao([w EXCEPT !.idxDiv = @ + 1])
    ELSE [w EXCEPT !.idxDiv = @ + 1]

\* steps 2 (end) and 3: the parsed statement is kept and compared; step 4,
\* deleteDivergenciasByComparacaoId, is under way
DepoisDoExtrato(w, fileName, conteudo) ==
    IF conteudo.arquivo.fatal # NULL
    THEN Catch([w EXCEPT !.extratoDe = conteudo.dono,
                         !.allIssues = Append(@, Issue(fileName, "ERRO", 0))],
               "parseMpds", conteudo.arquivo.fatal)
    ELSE [w EXCEPT !.extratoDe = conteudo.dono,
                   !.lancamentosExtrato = conteudo.arquivo.lancamentos,
                   !.allIssues = @ \o ComArquivo(fileName, conteudo.arquivo.issues),
                   !.divergencias = compareBankVsTxt(conteudo.arquivo.lancamentos,
                                        w.lancamentosOtimiza, 2, 2, <<55, 100>>, TRUE),
                   !.pc = "deleteDivergencias"]

----------------------------------------------------------------------------
(* The runs *)

JobInit ==
    /\ comparacoes = [j \in Jobs |->
                         [status |-> "ausente", erro |-> NULL, parsing_issues |-> <<>>,
                          bank_source_type |-> "CSV",
                          input_files |-> [otimiza |-> <<>>, mpds |-> <<>>]]]
    /\ tabelaDivergencias = [j \in Jobs |-> <<>>]
    /\ tabelaValidacoes = [j \in Jobs |-> <<>>]
    /\ disco = {}
    /\ relogio = 0
    /\ worker = [j \in Jobs |-> WorkerInicial]
    /\ pedidosDelete = [j \in Jobs |-> "nenhum"]
    /\ divergencias = <<>>
    /\ StrictIdle
    /\ FuzzyIdle
    /\ ValidaIdle
    /\ ParseIdle
    /\ LeitorIdle

\* POST /comparacoes: createComparacao with status 'pendente', then the call
\* of processarComparacao, which runs up to its first await; ids are given
\* in order
PostComparacao(j) ==
    /\ comparacoes[j].status = "ausente"
    /\ \A k \in 1..(j - 1) : comparacoes[k].status # "ausente"
    /\ \E inputFiles \in InputFilesUniverse :
          comparacoes' = [comparacoes EXCEPT ![j] =
              [status |-> "pendente", erro |-> NULL, parsing_issues |-> <<>>,
               bank_source_type |->
                   bankSourceType(comparacoes[j], inputFiles.mpds[1].filename),
               input_files |-> inputFiles]]
    /\ worker' = [worker EXCEPT ![j].pc = "processing"]
    /\ UNCHANGED <<tabelaDivergencias, tabelaValidacoes, disco, relogio, divergencias>>
    /\ UNCHANGED <<strictVars, fuzzyVars, validaVars, parseVars, leitorVars, rotaVars>>

\* the second passes
Tick ==
    /\ relogio < MaxRelogio
    /\ relogio' = relogio + 1
    /\ UNCHANGED <<comparacoes, tabelaDivergencias, tabelaValidacoes, disco, worker,
                   divergencias>>
    /\ UNCHANGED <<strictVars, fuzzyVars, validaVars, parseVars, leitorVars, rotaVars>>

\* await updateComparacaoStatus(id, 'processing', null, {started_at}) returns
\* or throws; on success getComparacaoById is under way
ProcessingWritten(j) ==
    /\ worker[j].pc = "processing"
    /\ \E ok \in BOOLEAN :
          IF ok
          THEN /\ comparacoes' = [comparacoes EXCEPT ![j] =
                       updateComparacaoStatus(@, "processing", NULL, <<>>)]
               /\ worker' = [worker EXCEPT ![j].pc = "getComparacao"]
          ELSE /\ worker' = [worker EXCEPT ![j] =
                       Catch(@, "updateComparacaoStatus processing", SQLITE_ERROR)]
               /\ UNCHANGED comparacoes
    /\ UNCHANGED <<tabelaDivergencias, tabelaValidacoes, disco, relogio, divergencias>>
    /\ UNCHANGED <<strictVars, fuzzyVars, validaVars, parseVars, leitorVars, rotaVars>>

\* await getComparacaoById returns or throws; on success steps 1 and 2 up to
\* the statement parser run without a pause: every ledger file is written and
\* parsed, duplicates are removed, the statement is written; an OFX or PDF
\* statement is read at once, a CSV statement is left to its read stream
ComparacaoLida(j) ==
    /\ worker[j].pc = "getComparacao"
    /\ \E ok \in BOOLEAN, falhas \in SUBSET (1..Len(comparacoes[j].input_files.otimiza)) :
          IF ~ok
          THEN /\ falhas = {}
               /\ worker' = [worker EXCEPT ![j] =
                       Catch(@, "getComparacaoById", SQLITE_ERROR)]
               /\ UNCHANGED disco
          ELSE IF ~LinhaExiste(comparacoes[j])
          THEN /\ falhas = {}
               /\ worker' = [worker EXCEPT ![j] =
                       Catch(@, "getComparacaoById", NaoEncontrada)]
               /\ UNCHANGED disco
          ELSE LET comparacao == comparacoes[j]
                   inputFiles == comparacao.input_files
                   timestamp == relogio
                   acc == LoopOtimiza(j, timestamp, inputFiles.otimiza, falhas, 1,
                              [disco |-> disco, lancamentosOtimiza |-> <<>>,
                               allIssues |-> <<>>, erros |-> {}])
                   lancamentosUnicos == RemoveDuplicados(acc.lancamentosOtimiza, {}, <<>>)
                   duplicadosRemovidos ==
                       Len(acc.lancamentosOtimiza) - Len(lancamentosUnicos)
                   fileName == inputFiles.mpds[1].filename
                   filePath == <<"mpds", timestamp, 0, fileName>>
                   d == writeFileSync(acc.disco, filePath,
                                      [dono |-> j, arquivo |-> inputFiles.mpds[1]])
                   tipo == bankSourceType(comparacao, fileName)
                   w == [worker[j] EXCEPT
                            !.timestamp = timestamp,
                            !.lancamentosOtimiza = lancamentosUnicos,
                            !.allIssues =
                                IF duplicadosRemovidos > 0
                                THEN Append(acc.allIssues,
                                            Issue(<<>>, "Removidos", duplicadosRemovidos))
                                ELSE acc.allIssues,
                            !.filePath = filePath,
                            !.erros = @ \cup acc.erros]
               IN  /\ disco' = d
                   /\ worker' = [worker EXCEPT ![j] =
                          IF tipo = "CSV" THEN [w EXCEPT !.pc = "csvStream"]
                          ELSE IF tipo \in {"OFX", "PDF"}
                          THEN DepoisDoExtrato(w, fileName, readFile(d, filePath))
                          ELSE Catch([w EXCEPT !.allIssues =
                                         Append(@, Issue(fileName, "ERRO", 0))],
                                     "parseMpds", "Tipo de arquivo não suportado")]
    /\ UNCHANGED <<comparacoes, tabelaDivergencias, tabelaValidacoes, relogio, divergencias>>
    /\ UNCHANGED <<strictVars, fuzzyVars, validaVars, parseVars, leitorVars, rotaVars>>

\* the read stream of parseMpdsCsv ends or fails: the rows are those the file
\* holds when the stream reads it
CsvStreamEnd(j) ==
    /\ worker[j].pc = "csvStream"
    /\ \E ok \in BOOLEAN :
          worker' = [worker EXCEPT ![j] =
              IF ok THEN DepoisDoExtrato(@, @.filePath[4], readFile(disco, @.filePath))
              ELSE Catch([@ EXCEPT !.allIssues = Append(@, Issue(worker[j].filePath[4], "ERRO", 0))],
                         "parseMpds", EIO)]
    /\ UNCHANGED <<comparacoes, tabelaDivergencias, tabelaValidacoes, disco, relogio,
                   divergencias>>
    /\ UNCHANGED <<strictVars, fuzzyVars, validaVars, parseVars, leitorVars, rotaVars>>

\* await deleteDivergenciasByComparacaoId returns or throws; on success the
\* first createDivergencia is under way, or step 6 begins
DivergenciasDeleted(j) ==
    /\ worker[j].pc = "deleteDivergencias"
    /\ \E ok \in BOOLEAN :
          IF ok
          THEN /\ tabelaDivergencias' = [tabelaDivergencias EXCEPT ![j] = <<>>]
               /\ worker' = [worker EXCEPT ![j] =
                       IF Len(@.divergencias) = 0 THEN IniciaValidacao(@)
                       ELSE [@ EXCEPT !.pc = "createDivergencia"]]
          ELSE /\ worker' = [worker EXCEPT ![j] =
                       Catch(@, "deleteDivergenciasByComparacaoId", SQLITE_ERROR)]
               /\ UNCHANGED tabelaDivergencias
    /\ UNCHANGED <<comparacoes, tabelaValidacoes, disco, relogio, divergencias>>
    /\ UNCHANGED <<strictVars, fuzzyVars, validaVars, parseVars, leitorVars, rotaVars>>

\* await createDivergencia(div) returns or throws, for the divergence at
\* idxDiv; after the last one step 6 begins
DivergenciaCreated(j) ==
    /\ worker[j].pc = "createDivergencia"
    /\ \E ok \in BOOLEAN :
          IF ok /\ ReferenciaValida(comparacoes[j])
          THEN /\ tabelaDivergencias' = [tabelaDivergencias EXCEPT ![j] =
                       Append(@, worker[j].divergencias[worker[j].idxDiv])]
               /\ worker' = [worker EXCEPT ![j] = DepoisDeGravar(@)]
          ELSE /\ worker' = [worker EXCEPT ![j] =
                       Catch(@, "createDivergencia",
                             IF ok THEN SQLITE_CONSTRAINT ELSE SQLITE_ERROR)]
               /\ UNCHANGED tabelaDivergencias
    /\ UNCHANGED <<comparacoes, tabelaValidacoes, disco, relogio, divergencias>>
    /\ UNCHANGED <<strictVars, fuzzyVars, validaVars, parseVars, leitorVars, rotaVars>>

\* one iteration of validateLancamentosAccounts for the ledger transaction at
\* idxVal: its queries and createAccountValidationResult return, or one of
\* them throws and the catch of step 6 drops the error; either way the write
\* of 'concluida' is under way once the validation is over
LancamentoValidado(j) ==
    /\ worker[j].pc = "valida"
    /\ \E ok \in BOOLEAN :
          LET w == worker[j]
              lancamento == w.lancamentosOtimiza[w.idxVal]
              v == ValidaLancamento(lancamento, w.idxVal, "dominio", JobChart, JobRegras).linha
              ok1 == IF v.status = "ok" THEN w.okCount + 1 ELSE w.okCount
              invalid1 == IF v.status = "invalid" THEN w.invalidCount + 1 ELSE w.invalidCount
              unknown1 == IF v.status \notin {"ok", "invalid"} THEN w.unknownCount + 1
                          ELSE w.unknownCount
              w1 == [w EXCEPT !.idxVal = @ + 1, !.okCount = ok1,
                              !.invalidCount = invalid1, !.unknownCount = unknown1]
          IN  IF ok /\ ReferenciaValida(comparacoes[j])
              THEN /\ tabelaValidacoes' = [tabelaValidacoes EXCEPT ![j] =
                           Append(@, [lancamento_key |->
                                          <<lancamento.data, lancamento.valor, w.idxVal - 1>>,
                                      status |-> v.status,
                                      reason_code |-> v.reason_code])]
                   /\ worker' = [worker EXCEPT ![j] =
                           IF w.idxVal = Len(w.lancamentosOtimiza)
                           THEN [w1 EXCEPT !.pc = "concluida", !.validado = TRUE,
                                           !.validationSummary =
                                               <<[total |-> Len(w.lancamentosOtimiza),
                                                  ok |-> ok1, invalid |-> invalid1,
                                                  unknown |-> unknown1]>>]
                           ELSE w1]
              ELSE /\ worker' = [worker EXCEPT ![j] =
                           [w EXCEPT !.pc = "concluida",
                                     !.erros = @ \cup {<<"validateLancamentosAccounts",
                                                         IF ok THEN SQLITE_CONSTRAINT
                                                         ELSE SQLITE_ERROR>>}]]
                   /\ UNCHANGED tabelaValidacoes
    /\ UNCHANGED <<comparacoes, tabelaDivergencias, disco, relogio, divergencias>>
    /\ UNCHANGED <<strictVars, fuzzyVars, validaVars, parseVars, leitorVars, rotaVars>>

\* await updateComparacaoStatus(id, 'concluida', null, {..., parsing_issues})
\* returns, and the run resolves, or throws
ConcluidaWritten(j) ==
    /\ worker[j].pc = "concluida"
    /\ \E ok \in BOOLEAN :
          IF ok
          THEN /\ comparacoes' = [comparacoes EXCEPT ![j] =
                       updateComparacaoStatus(@, "concluida", NULL, <<worker[j].allIssues>>)]
               /\ worker' = [worker EXCEPT ![j].pc = "resolved"]
          ELSE /\ worker' = [worker EXCEPT ![j] =
                       Catch(@, "updateComparacaoStatus concluida", SQLITE_ERROR)]
               /\ UNCHANGED comparacoes
    /\ UNCHANGED <<tabelaDivergencias, tabelaValidacoes, disco, relogio, divergencias>>
    /\ UNCHANGED <<strictVars, fuzzyVars, validaVars, parseVars, leitorVars, rotaVars>>

\* await updateComparacaoStatus(id, 'erro', error.message, {finished_at}) in
\* the catch returns, and the error is thrown again, or throws itself; either
\* way the run rejects and POST /comparacoes logs it
ErroWritten(j) ==
    /\ worker[j].pc = "erro"
    /\ \E ok \in BOOLEAN :
          IF ok
          THEN /\ comparacoes' = [comparacoes EXCEPT ![j] =
                       updateComparacaoStatus(@, "erro", worker[j].error, <<>>)]
               /\ worker' = [worker EXCEPT ![j].pc = "rejected"]
          ELSE /\ worker' = [worker EXCEPT ![j].pc = "rejected",
                                           ![j].erros = @ \cup {<<"updateComparacaoStatus erro", SQLITE_ERROR>>}]
               /\ UNCHANGED comparacoes
    /\ UNCHANGED <<tabelaDivergencias, tabelaValidacoes, disco, relogio, divergencias>>
    /\ UNCHANGED <<strictVars, fuzzyVars, validaVars, parseVars, leitorVars, rotaVars>>

\* what a started run does next
JobStep(j) ==
    \/ ProcessingWritten(j)
    \/ ComparacaoLida(j)
    \/ CsvStreamEnd(j)
    \/ DivergenciasDeleted(j)
    \/ DivergenciaCreated(j)
    \/ LancamentoValidado(j)
    \/ ConcluidaWritten(j)
    \/ ErroWritten(j)

JobNext ==
    \/ \E j \in Jobs : PostComparacao(j)
    \/ Tick
    \/ \E j \in Jobs : ProcessingWritten(j)
    \/ \E j \in Jobs : ComparacaoLida(j)
    \/ \E j \in Jobs : CsvStreamEnd(j)
    \/ \E j \in Jobs : DivergenciasDeleted(j)
    \/ \E j \in Jobs : DivergenciaCreated(j)
    \/ \E j \in Jobs : LancamentoValidado(j)
    \/ \E j \in Jobs : ConcluidaWritten(j)
    \/ \E j \in Jobs : ErroWritten(j)

SpecJob == JobInit /\ [][JobNext]_vars

\* every completion a run waits for comes: the event loop runs the callback
\* of each finished database call and stream
SpecJobLive == SpecJob /\ \A j \in Jobs : WF_vars(JobStep(j))


----------------------------------------------------------------------------
(* Claims on processarComparacao *)

Terminou(j) == worker[j].pc \in {"resolved", "rejected"}

\* C11: when a job ends concluida the store holds exactly one validation
\* result per de-duplicated ledger transaction of the job, with pairwise
\* distinct lancamento_key values, and the validation summary satisfies
\* total = ok + invalid + unknown = number of ledger transactions.
C11_ConcluidaHasOneResultPerLancamento ==
    \A j \in Jobs :
        comparacoes[j].status = "concluida" =>
            LET rows == tabelaValidacoes[j]
                n == Len(worker[j].lancamentosOtimiza)
                summary == worker[j].validationSummary
            IN  /\ Len(rows) = n
                /\ \A a, b \in 1..Len(rows) :
                       rows[a].lancamento_key = rows[b].lancamento_key => a = b
                /\ summary # <<>>
                /\ summary[1].total = n
                /\ summary[1].total = summary[1].ok + summary[1].invalid + summary[1].unknown

StatusMuda(j, de, para) ==
    comparacoes[j].status = de /\ comparacoes'[j].status = para

\* C12: the persisted status only changes along pendente -> processing ->
\* concluida or pendente -> processing -> erro: never concluida or erro
\* without having been processing, and never changed once concluida or erro.
C12_StatusOnlyThroughProcessing ==
    [][ \A j \in Jobs :
            comparacoes'[j].status # comparacoes[j].status =>
                \/ StatusMuda(j, "ausente", "pendente")
                \/ StatusMuda(j, "pendente", "processing")
                \/ StatusMuda(j, "processing", "concluida")
                \/ StatusMuda(j, "processing", "erro")
      ]_vars

\* C12 as the code has it: the status changes along pendente -> processing ->
\* concluida or erro, or from pendente straight to erro when the write of
\* 'processing' itself failed; once concluida or erro it never changes.
C12_StatusPathOrFailedStart ==
    [][ \A j \in Jobs :
            comparacoes'[j].status # comparacoes[j].status =>
                \/ StatusMuda(j, "ausente", "pendente")
                \/ StatusMuda(j, "pendente", "processing")
                \/ StatusMuda(j, "processing", "concluida")
                \/ StatusMuda(j, "processing", "erro")
                \/ /\ StatusMuda(j, "pendente", "erro")
                   /\ worker[j].erros = {<<"updateComparacaoStatus processing", SQLITE_ERROR>>}
      ]_vars

\* one run went from pendente to erro and has ended, another ended concluida
C12_Witness ==
    \E j, k \in Jobs :
        /\ comparacoes[j].status = "erro"
        /\ worker[j].pc = "rejected"
        /\ worker[j].erros = {<<"updateComparacaoStatus processing", SQLITE_ERROR>>}
        /\ comparacoes[k].status = "concluida"
        /\ worker[k].pc = "resolved"

\* C13: whenever a job ends erro none of its outputs is persisted: no
\* divergence row and no validation-result row of the job is in the store.
C13_ErroLeavesNoOutput ==
    \A j \in Jobs :
        comparacoes[j].status = "erro" =>
            tabelaDivergencias[j] = <<>> /\ tabelaValidacoes[j] = <<>>

\* the issues of single lines and records, as they stand in allIssues
NaoFatais(j) ==
    { i \in Range(worker[j].allIssues) : i.arquivo # <<>> /\ i.texto # "ERRO" }

\* C14: whenever a job ends, concluida or erro, its persisted parsing_issues
\* contain every non-fatal parsing issue accumulated from the files parsed.
C14_IssuesPersistedAtEnd ==
    \A j \in Jobs :
        comparacoes[j].status \in {"concluida", "erro"} =>
            \A i \in NaoFatais(j) :
                /\ comparacoes[j].parsing_issues # <<>>
                /\ i \in Range(comparacoes[j].parsing_issues[1])

\* C15: an unrecoverable error raised by any stage ends the job in erro with
\* the erro field equal to the message of the error; the job never ends
\* concluida after such an error.  (Runs whose write of 'erro' failed are
\* left aside here.)
C15_ErrorEndsInErroVerbatim ==
    \A j \in Jobs :
        ( /\ Terminou(j)
          /\ worker[j].erros # {}
          /\ <<"updateComparacaoStatus erro", SQLITE_ERROR>> \notin worker[j].erros ) =>
            /\ comparacoes[j].status = "erro"
            /\ \A e \in worker[j].erros : comparacoes[j].erro = e[2]

\* C16: no run parses a statement that another run wrote to disk: the
\* transactions a job matches come from its own upload only.
C16_JobsParseOwnFiles ==
    \A j \in Jobs : worker[j].extratoDe \in {0, j}

C19_StartedJobReachesFinalStatus ==
    \A j \in Jobs :
        (worker[j].pc = "processing") ~> (comparacoes[j].status \in {"concluida", "erro"})

----------------------------------------------------------------------------
(* parseMpdsPdf: the promise, the 60-second timer and the text extraction *)

MaxPdfCalls == 2
PdfCalls == 1..MaxPdfCalls

\* setTimeout(..., 60000), in steps of 20 seconds
Prazo == 3

ArquivoNaoEncontrado == "Arquivo não encontrado"
TimeoutPdf == "Timeout ao processar PDF (arquivo muito grande)"
SemTexto == "PDF não contém texto extraível"
PdfInvalido == "PDF inválido ou corrompido. Por favor, baixe o extrato diretamente do app/banco"
BadXref == "bad XRef entry"
OutroErro == "Error"
ResultadoPdf == "{lancamentos, issues}"

\* what pdf(dataBuffer) and the handler of its text can end with
Extracoes == { "texto", "vazio", "parser lança", BadXref, OutroErro }

\* a call that has not been made yet
ChamadaInicial ==
    [ estado      |-> "não chamada",  \* then pending, fulfilled or rejected
      valor       |-> NULL,           \* the result or the error message
      timeout     |-> "nenhum",       \* nenhum, armado, cancelado, disparou
      decorrido   |-> 0,              \* time since setTimeout, at most Prazo
      pdf         |-> "nenhum",       \* nenhum, em curso, terminou
      visto       |-> <<>>,           \* what the awaiting caller resumed with
      tentativas  |-> <<>>,           \* every resolve or reject call, in order
      extracoes   |-> 0 ]             \* times pdf() was started

\* a settled promise ignores resolve and reject
rejectSempre(p, erro) ==
    [p EXCEPT !.estado = "rejected", !.valor = erro,
              !.tentativas = Append(@, <<"rejected", erro>>)]

reject(p, erro) ==
    IF p.estado = "pending"
    THEN [p EXCEPT !.estado = "rejected", !.valor = erro,
                   !.tentativas = Append(@, <<"rejected", erro>>)]
    ELSE [p EXCEPT !.tentativas = Append(@, <<"rejected", erro>>)]

resolve(p, resultado) ==
    IF p.estado = "pending"
    THEN [p EXCEPT !.estado = "fulfilled", !.valor = resultado,
                   !.tentativas = Append(@, <<"fulfilled", resultado>>)]
    ELSE [p EXCEPT !.tentativas = Append(@, <<"fulfilled", resultado>>)]

\* clearTimeout of a timer that has fired or was cleared does nothing
clearTimeout(p) ==
    IF p.timeout = "armado" THEN [p EXCEPT !.timeout = "cancelado"] ELSE p

\* the .catch of parseMpdsPdf
PdfCatchHandler(p, erro) ==
    LET q == clearTimeout(p)
    IN  IF erro = BadXref THEN reject(q, PdfInvalido) ELSE reject(q, erro)

\* the .then of parseMpdsPdf; what it throws reaches the .catch
PdfThenHandler(p, extracao) ==
    LET q == clearTimeout(p)
    IN  CASE extracao = "vazio" -> reject(q, SemTexto)
          [] extracao = "parser lança" -> PdfCatchHandler(q, OutroErro)
          [] OTHER -> resolve(q, ResultadoPdf)

PdfInit ==
    /\ chamadasPdf = [c \in PdfCalls |-> ChamadaInicial]
    /\ divergencias = <<>>
    /\ StrictIdle
    /\ FuzzyIdle
    /\ ValidaIdle
    /\ ParseIdle
    /\ JobIdle
    /\ TxtIdle
    /\ LedgerIdle

PdfUnchanged ==
    UNCHANGED <<strictVars, fuzzyVars, divergencias, validaVars, parseVars, jobVars,
                txtVars, ledgerVars>>

\* the executor of the promise, up to the call of pdf()
ParseMpdsPdf(c) ==
    /\ chamadasPdf[c].estado = "não chamada"
    /\ \E existe \in BOOLEAN :
          chamadasPdf' = [chamadasPdf EXCEPT ![c] =
              IF ~existe
              THEN reject([@ EXCEPT !.estado = "pending"], ArquivoNaoEncontrado)
              ELSE [@ EXCEPT !.estado = "pending", !.timeout = "armado",
                             !.pdf = "em curso", !.extracoes = @ + 1]]
    /\ PdfUnchanged

\* 20 seconds pass for every timer that is not yet due
PdfTick ==
    /\ \E c \in PdfCalls : /\ chamadasPdf[c].timeout = "armado"
                           /\ chamadasPdf[c].decorrido < Prazo
    /\ chamadasPdf' = [c \in PdfCalls |->
          IF chamadasPdf[c].timeout = "armado" /\ chamadasPdf[c].decorrido < Prazo
          THEN [chamadasPdf[c] EXCEPT !.decorrido = @ + 1]
          ELSE chamadasPdf[c]]
    /\ PdfUnchanged

\* the callback of setTimeout
PdfTimeout(c) ==
    /\ chamadasPdf[c].timeout = "armado"
    /\ chamadasPdf[c].decorrido = Prazo
    /\ chamadasPdf' = [chamadasPdf EXCEPT ![c] =
          reject([@ EXCEPT !.timeout = "disparou"], TimeoutPdf)]
    /\ PdfUnchanged

\* pdf() fulfils or rejects and the handler registered for it runs
PdfSettles(c) ==
    /\ chamadasPdf[c].pdf = "em curso"
    /\ \E extracao \in Extracoes :
          chamadasPdf' = [chamadasPdf EXCEPT ![c] =
              LET p == [@ EXCEPT !.pdf = "terminou"]
              IN  IF extracao \in { BadXref, OutroErro }
                  THEN PdfCatchHandler(p, extracao)
                  ELSE PdfThenHandler(p, extracao)]
    /\ PdfUnchanged

\* the caller's await resumes with the outcome of the promise
PdfAwaitResumes(c) ==
    /\ chamadasPdf[c].estado \in { "fulfilled", "rejected" }
    /\ chamadasPdf[c].visto = <<>>
    /\ chamadasPdf' = [chamadasPdf EXCEPT ![c] =
          [@ EXCEPT !.visto = <<chamadasPdf[c].estado, chamadasPdf[c].valor>>]]
    /\ PdfUnchanged

PdfStep(c) ==
    \/ ParseMpdsPdf(c)
    \/ PdfTimeout(c)
    \/ PdfSettles(c)
    \/ PdfAwaitResumes(c)

PdfNext ==
    \/ \E c \in PdfCalls : ParseMpdsPdf(c)
    \/ PdfTick
    \/ \E c \in PdfCalls : PdfTimeout(c)
    \/ \E c \in PdfCalls : PdfSettles(c)
    \/ \E c \in PdfCalls : PdfAwaitResumes(c)

SpecPdf == PdfInit /\ [][PdfNext]_vars

\* the event loop lets time pass and runs every callback that is due
SpecPdfLive ==
    /\ SpecPdf
    /\ WF_vars(PdfTick)
    /\ \A c \in PdfCalls : WF_vars(PdfStep(c))

\* the first resolve or reject of call c, the one that settles it
PrimeiraTentativa(c) == chamadasPdf[c].tentativas[1]

PdfOutcomeIsFirstSettlement ==
    \A c \in PdfCalls :
        LET p == chamadasPdf[c]
        IN  /\ p.estado \in { "fulfilled", "rejected" } <=> p.tentativas # <<>>
            /\ p.tentativas # <<>> => <<p.estado, p.valor>> = PrimeiraTentativa(c)
            /\ p.visto # <<>> => p.visto = <<p.estado, p.valor>>
            \* the timer fired first: the timeout error, whatever pdf() does later
            /\ p.timeout = "disparou" => /\ p.estado = "rejected"
                                         /\ p.valor = TimeoutPdf
            \* pdf() settled first: the timer is cancelled and never rejects
            /\ p.timeout = "cancelado" => /\ p.pdf = "terminou"
                                          /\ p.valor # TimeoutPdf
            /\ p.pdf = "terminou" => p.timeout \in { "cancelado", "disparou" }
            \* one timer and one extraction for each call
            /\ p.extracoes <= 1

PdfSettledStays ==
    \A c \in PdfCalls :
        chamadasPdf[c].estado \in { "fulfilled", "rejected" } =>
            /\ chamadasPdf'[c].estado = chamadasPdf[c].estado
            /\ chamadasPdf'[c].valor = chamadasPdf[c].valor
            /\ chamadasPdf'[c].extracoes = chamadasPdf[c].extracoes
            /\ chamadasPdf'[c].timeout # "armado" \/ chamadasPdf[c].timeout = "armado"

\* C23: parseMpdsPdf settles exactly once and the 60-second timer bounds
\* it: every call settles; when the timer fires before pdf() settles the
\* promise is rejected with the timeout error and what pdf() does later does
\* not change that; when pdf() settles first the timer is cancelled and never
\* rejects; no call starts a second extraction or a second timer.
C23_PdfSettlesOnceBoundedByTimer ==
    /\ []PdfOutcomeIsFirstSettlement
    /\ [][PdfSettledStays]_vars
    /\ \A c \in PdfCalls :
          (chamadasPdf[c].estado = "pending") ~>
              (chamadasPdf[c].estado \in { "fulfilled", "rejected" })

\* the timer of a call fired, pdf() settled afterwards, and the caller had
\* resumed with the timeout error
C23_Witness ==
    \E c \in PdfCalls :
        /\ chamadasPdf[c].timeout = "disparou"
        /\ chamadasPdf[c].pdf = "terminou"
        /\ Len(chamadasPdf[c].tentativas) = 2
        /\ chamadasPdf[c].visto = <<"rejected", TimeoutPdf>>

----------------------------------------------------------------------------
(* parseOtimizaTxt: one line of the ledger text at a time *)

LetrasMaiusculas ==
    { "A", "B", "C", "D", "E", "F", "G", "H", "I", "J", "K", "L", "M",
      "N", "O", "P", "Q", "R", "S", "T", "U", "V", "W", "X", "Y", "Z" }

\* [A-Z] under the flag i
EhLetra(c) == UpperChar(c) \in LetrasMaiusculas

\* the class [\d.,-]
ValorChars == Digitos \cup { ".", ",", "-" }

Delimitadores == { "|", ";", "\t" }

\* the longest prefix of characters of a class
RECURSIVE TakeWhile(_,_)
TakeWhile(s, classe) ==
    IF s # <<>> /\ Head(s) \in classe
    THEN <<Head(s)>> \o TakeWhile(Tail(s), classe)
    ELSE <<>>

Depois(s, prefixo) == SubSeq(s, Len(prefixo) + 1, Len(s))

\* linha.split(/[|;\t]+/).map(p => p.trim()).filter(p => p)
RECURSIVE SplitPartes(_,_,_)
SplitPartes(s, cur, acc) ==
    IF s = <<>> THEN (IF trim(cur) = <<>> THEN acc ELSE Append(acc, trim(cur)))
    ELSE IF Head(s) \in Delimitadores
         THEN SplitPartes(Tail(s), <<>>,
                          IF trim(cur) = <<>> THEN acc ELSE Append(acc, trim(cur)))
         ELSE SplitPartes(Tail(s), Append(cur, Head(s)), acc)

\* /^\d+\.\d+\.\d+/
EhContaContabil(parte) ==
    LET d1 == TakeDigits(parte)
        r1 == Depois(parte, d1)
        d2 == IF r1 # <<>> /\ Head(r1) = "." THEN TakeDigits(Tail(r1)) ELSE <<>>
        r2 == IF r1 = <<>> THEN <<>> ELSE Depois(Tail(r1), d2)
    IN  /\ d1 # <<>>
        /\ d2 # <<>>
        /\ r2 # <<>> /\ Head(r2) = "."
        /\ TakeDigits(Tail(r2)) # <<>>

\* /^\d+\.\d+\./
ComecaComoConta(parte) ==
    LET d1 == TakeDigits(parte)
        r1 == Depois(parte, d1)
        d2 == IF r1 # <<>> /\ Head(r1) = "." THEN TakeDigits(Tail(r1)) ELSE <<>>
        r2 == IF r1 = <<>> THEN <<>> ELSE Depois(Tail(r1), d2)
    IN  /\ d1 # <<>>
        /\ d2 # <<>>
        /\ r2 # <<>> /\ Head(r2) = "."

\* /^[A-Z]+\d+$/i
EhDocumento(parte) ==
    LET letras == TakeWhile(toUpperCase(parte), LetrasMaiusculas)
        resto == Depois(parte, letras)
    IN  /\ letras # <<>>
        /\ resto # <<>>
        /\ TakeDigits(resto) = resto

\* /^[\d.,-]+$/
EhNumerico(parte) == parte # <<>> /\ TakeWhile(parte, ValorChars) = parte

\* new Date() of date-fns parse: the year two-digit years are read against
AnoDeReferencia == 2024

\* a two-digit year is the year of that ending within 50 years of the
\* reference year
AnoDeDoisDigitos(yy) ==
    LET rangeEnd == AnoDeReferencia + 50
        seculo == (rangeEnd \div 100) * 100
    IN  IF yy >= rangeEnd % 100 THEN yy + seculo - 100 ELSE yy + seculo

Bissexto(ano) == (ano % 4 = 0 /\ ano % 100 # 0) \/ ano % 400 = 0

DiasNoMes(ano, mes) ==
    IF mes = 2 THEN (IF Bissexto(ano) THEN 29 ELSE 28)
    ELSE IF mes \in { 4, 6, 9, 11 } THEN 30 ELSE 31

\* isValid(parse(...)): the day exists in the calendar
Data(ano, mes, dia) ==
    IF mes \in 1..12 /\ dia \in 1..DiasNoMes(ano, mes)
    THEN <<[ano |-> ano, mes |-> mes, dia |-> dia]>>
    ELSE <<>>

\* the runs of digits of a text and the separators between them
RECURSIVE Grupos(_,_)
Grupos(s, acc) ==
    IF s = <<>> THEN acc
    ELSE LET d == TakeDigits(s)
         IN  IF d # <<>> THEN Grupos(Depois(s, d), Append(acc, d))
             ELSE Grupos(Tail(s), Append(acc, <<Head(s)>>))

\* parseDataSafe(dataStr): <<>> for null, else <<the date>>. A text matches
\* at most one of the five patterns.
parseDataSafe(dataStr) ==
    IF dataStr = <<>> \/ trim(dataStr) = <<>> THEN <<>>
    ELSE
    LET g == Grupos(trim(dataStr), <<>>)
        forma == [i \in 1..Len(g) |->
                     IF g[i][1] \in Digitos THEN Len(g[i]) ELSE 0]
        sep(i) == g[i][1]
        n(i) == IntOf(g[i], 0)
    IN  IF Len(g) # 5 \/ sep(2) # sep(4) THEN <<>>
        ELSE IF forma = <<2, 0, 2, 0, 4>> /\ sep(2) \in { "/", "-" }
             THEN Data(n(5), n(3), n(1))
        ELSE IF forma = <<2, 0, 2, 0, 2>> /\ sep(2) \in { "/", "-" }
             THEN Data(AnoDeDoisDigitos(n(5)), n(3), n(1))
        ELSE IF forma = <<4, 0, 2, 0, 2>> /\ sep(2) = "-"
             THEN Data(n(1), n(3), n(5))
        ELSE <<>>

\* a transaction as parseOtimizaTxt pushes it (saldo and event_type are null,
\* origem is 'otimiza'); <<>> stands for null
LancTxt(data, descricao, documento, valor, accountCode, category, entityType) ==
    [data |-> data, descricao |-> descricao, documento |-> documento,
     valor |-> valor, conta_contabil |-> accountCode, account_code |-> accountCode,
     category |-> category, entity_type |-> entityType]

IssueTxt(n, texto) == [linha |-> n, texto |-> texto]

\* what one iteration of the for loop leaves: the transactions and the issues
\* it pushed, whether it threw, and the branch that ended it
Efeito(lancs, iss, lancou, motivo) ==
    [lancamentos |-> lancs, issues |-> iss, lancou |-> lancou, motivo |-> motivo]

\* the loop that looks for the amount among the delimited fields, from the
\* field at position i (from 1)
RECURSIVE ProcuraValor(_,_,_,_)
ProcuraValor(partes, i, accountCode, documento) ==
    IF i > Len(partes)
    THEN [valorStr |-> <<>>, valorIdx |-> 0, accountCode |-> accountCode,
          documento |-> documento]
    ELSE
    LET parte == partes[i]
        pedacos == SplitBy(parte, ".", <<>>, <<>>)
        temVirgula == TemChar(parte, ",")
        temPontoDecimal == TemChar(parte, ".") /\ Len(pedacos[2]) <= 2
        naoEConta == ~ComecaComoConta(parte)
    IN  IF EhContaContabil(parte)
        THEN ProcuraValor(partes, i + 1,
                          IF accountCode = <<>> THEN parte ELSE accountCode, documento)
        ELSE IF EhDocumento(parte)
        THEN ProcuraValor(partes, i + 1, accountCode,
                          IF documento = <<>> THEN parte ELSE documento)
        ELSE IF EhNumerico(parte) /\ (temVirgula \/ temPontoDecimal) /\ naoEConta
        THEN [valorStr |-> parte, valorIdx |-> i, accountCode |-> accountCode,
              documento |-> documento]
        ELSE ProcuraValor(partes, i + 1, accountCode, documento)

\* the fields of the variable layout: the date is the first, second or third
\* field, the description the field beside it, the rest comes from the loop
CamposVariaveis(partes, primeira, segunda, terceira) ==
    LET achado == ProcuraValor(partes, (IF primeira \/ segunda THEN 2 ELSE 3) + 1,
                               <<>>, <<>>)
    IN  [dataStr |-> IF primeira THEN partes[1]
                     ELSE IF segunda THEN partes[2]
                     ELSE IF terceira THEN partes[3]
                     ELSE partes[1],
         descricao |-> IF primeira THEN partes[2]
                       ELSE IF segunda THEN partes[1]
                       ELSE IF terceira THEN partes[1] \o <<" ">> \o partes[2]
                       ELSE partes[2],
         accountCode |-> achado.accountCode, documento |-> achado.documento,
         valorStr |-> achado.valorStr, valorIdx |-> achado.valorIdx]

\* the fields the delimited branch settles before it reads the date
CamposDelimitados(partes) ==
    IF Len(partes) = 7 /\ parseDataSafe(partes[1]) # <<>>
    THEN [dataStr |-> partes[1], descricao |-> partes[2], accountCode |-> partes[3],
          documento |-> partes[4], valorStr |-> partes[5], valorIdx |-> 5]
    ELSE CamposVariaveis(partes, parseDataSafe(partes[1]) # <<>>,
                         parseDataSafe(partes[2]) # <<>>,
                         parseDataSafe(partes[3]) # <<>>)

\* the first field, skipping the amount, that looks like an account code;
\* <<>> for none
PrimeiraConta(partes, valorIdx) ==
    LET idx == { i \in 1..Len(partes) : i # valorIdx /\ EhContaContabil(partes[i]) }
    IN  IF idx = {} THEN <<>> ELSE partes[Primeiro(idx)]

\* likewise the first field that looks like a document number
PrimeiroDocumento(partes, valorIdx) ==
    LET idx == { i \in 1..Len(partes) : i # valorIdx /\ EhDocumento(partes[i]) }
    IN  IF idx = {} THEN <<>> ELSE partes[Primeiro(idx)]

\* the description looked for after the amount when the one found is short
DescricaoFinal(partes, descricao, valorIdx) ==
    IF Len(descricao) < 10
    THEN LET idx == { i \in (valorIdx + 1)..Len(partes) :
                         Len(partes[i]) > 10 /\ ~EhNumerico(partes[i]) }
         IN  IF idx = {} THEN descricao ELSE partes[Primeiro(idx)]
    ELSE descricao

\* the end of the delimited branch, once the date and the amount are read:
\* an amount of zero is skipped, any other gives a transaction, whose
\* description, account and document are looked for among the fields when
\* the layout is not the 7-field one
LancamentoDelimitado(partes, c, data, valor) ==
    IF valor = Num(0) THEN Efeito(<<>>, <<>>, FALSE, "valor zero")
    ELSE Efeito(<<LancTxt(data[1],
                          DescricaoFinal(partes, c.descricao, c.valorIdx),
                          IF Len(partes) = 7 \/ c.documento # <<>> THEN c.documento
                          ELSE PrimeiroDocumento(partes, c.valorIdx),
                          valor,
                          IF Len(partes) = 7 \/ c.accountCode # <<>> THEN c.accountCode
                          ELSE PrimeiraConta(partes, c.valorIdx),
                          IF Len(partes) = 7 THEN partes[6] ELSE <<>>,
                          IF Len(partes) = 7 THEN partes[7] ELSE <<>>)>>,
                <<>>, FALSE, "lançamento")

\* the delimited branch from the fields c it settled: a line whose date does
\* not parse is skipped; one without amount leaves an issue and, in strict
\* mode, throws into the catch, which leaves a second issue and throws again
LinhaDeCampos(partes, c, n, strito) ==
    IF parseDataSafe(c.dataStr) = <<>> THEN Efeito(<<>>, <<>>, FALSE, "data inválida")
    ELSE IF c.valorStr = <<>>
    THEN IF strito
         THEN Efeito(<<>>, <<IssueTxt(n, "Valor não encontrado"),
                             IssueTxt(n, "Erro ao parsear formato delimitado")>>,
                     TRUE, "valor não encontrado")
         ELSE Efeito(<<>>, <<IssueTxt(n, "Valor não encontrado")>>, FALSE,
                     "valor não encontrado")
    ELSE LancamentoDelimitado(partes, c, parseDataSafe(c.dataStr),
                              parseValorOtimiza(c.valorStr))

\* if (partes.length >= 3)
LinhaDePartes(partes, n, strito) ==
    IF Len(partes) < 3 THEN Efeito(<<>>, <<>>, FALSE, "menos de 3 campos")
    ELSE LinhaDeCampos(partes, CamposDelimitados(partes), n, strito)

\* the branch of a line that holds |, ; or a tab
LinhaDelimitada(linha, n, strito) ==
    LinhaDePartes(SplitPartes(linha, <<>>, <<>>), n, strito)

Marcadores ==
    { <<"D">>, <<"C">>, <<"D","E","B","I","T","O">>, <<"C","R","E","D","I","T","O">> }

\* /^\d{1,2}[\/-]\d{1,2}[\/-]\d{2,4}$/ for the first word of the line
EhDataInicio(palavra) ==
    LET g == Grupos(palavra, <<>>)
    IN  /\ Len(g) = 5
        /\ g[2] \in { <<"/">>, <<"-">> }
        /\ g[4] \in { <<"/">>, <<"-">> }
        /\ g[1][1] \in Digitos /\ Len(g[1]) \in 1..2
        /\ g[3][1] \in Digitos /\ Len(g[3]) \in 1..2
        /\ g[5][1] \in Digitos /\ Len(g[5]) \in 2..4

\* linha.match(padraoDataInicio) for a line whose words are one blank apart:
\* <<>> for no match, else <<[data, descricao, valor, marcador]>>. The lazy
\* description gives the amount the last word, or the word before the last
\* when the last word is a marker; the marker may follow the amount without
\* a blank.
MatchDataInicio(linha) ==
    LET p == Words(linha)
        k == Len(p)
        ultimoValor == IF k = 0 THEN <<>> ELSE TakeWhile(p[k], ValorChars)
        ultimoResto == IF k = 0 THEN <<>> ELSE Depois(p[k], ultimoValor)
    IN  IF k < 3 \/ ~EhDataInicio(p[1]) THEN <<>>
        ELSE IF k >= 4 /\ toUpperCase(p[k]) \in Marcadores /\ EhNumerico(p[k - 1])
        THEN <<[data |-> p[1], descricao |-> JoinWords(SubSeq(p, 2, k - 2)),
                valor |-> p[k - 1], marcador |-> p[k]]>>
        ELSE IF ultimoValor # <<>> /\ (ultimoResto = <<>> \/ toUpperCase(ultimoResto) \in Marcadores)
        THEN <<[data |-> p[1], descricao |-> JoinWords(SubSeq(p, 2, k - 1)),
                valor |-> ultimoValor, marcador |-> ultimoResto]>>
        ELSE <<>>

\* the positional branch from the match: a date that does not parse or an
\* amount of zero skips the line
LancamentoPosicional(m, data, valor) ==
    IF data = <<>> THEN Efeito(<<>>, <<>>, FALSE, "data inválida")
    ELSE IF valor = Num(0) THEN Efeito(<<>>, <<>>, FALSE, "valor zero")
    ELSE Efeito(<<LancTxt(data[1], trim(m.descricao), <<>>, valor, <<>>, <<>>, <<>>)>>,
                <<>>, FALSE, "lançamento")

\* if (match)
LinhaQueCasa(match) ==
    IF match = <<>> THEN Efeito(<<>>, <<>>, FALSE, "sem padrão")
    ELSE LancamentoPosicional(match[1], parseDataSafe(match[1].data),
                              parseValorOtimiza(match[1].valor))

\* the branch of a line without delimiter
LinhaPosicional(linha, n) == LinhaQueCasa(MatchDataInicio(linha))

palavrasCabecalho ==
    { <<"D", "A", "T", "A">>,
      <<"D", "E", "S", "C", "R", "I", "Ç", "Ã", "O">>,
      <<"H", "I", "S", "T", "Ó", "R", "I", "C", "O">>,
      <<"D", "O", "C", "U", "M", "E", "N", "T", "O">>,
      <<"V", "A", "L", "O", "R">>,
      <<"D", "É", "B", "I", "T", "O">>,
      <<"C", "R", "É", "D", "I", "T", "O">>,
      <<"S", "A", "L", "D", "O">>,
      <<"L", "A", "N", "Ç", "A", "M", "E", "N", "T", "O">>,
      <<"L", "A", "N", "C", "A", "M", "E", "N", "T", "O">> }

\* one iteration of the for loop over the trimmed line; n is numLinha + 1
ParseLinhaLimpa(linha, n, strito) ==
    IF linha = <<>> THEN Efeito(<<>>, <<>>, FALSE, "vazia")
    ELSE IF \E palavra \in palavrasCabecalho : includes(toUpperCase(linha), palavra)
    THEN Efeito(<<>>, <<>>, FALSE, "cabeçalho")
    ELSE IF \E d \in Delimitadores : TemChar(linha, d)
    THEN LinhaDelimitada(linha, n, strito)
    ELSE LinhaPosicional(linha, n)

\* const linha = linhaBruta.trim()
ParseLinha(bruta, n, strito) == ParseLinhaLimpa(trim(bruta), n, strito)

----------------------------------------------------------------------------
(* Inputs of parseOtimizaTxt *)

MaxLinhas == 2

\* the 7-field layout
lFixo ==
    <<"0", "1", "/", "0", "3", "/", "2", "0", "2", "4", "|", "L", "U", "Z", "|", "1", ".", "1", ".", "1", "|", "N", "F", "1", "|", "1", "5", "0", ",", "0", "0", "|", "D", "E", "S", "P", "|", "P", "A", "G", "A", "R">>

\* 7 fields, the fifth is no number
lFixoNaoNumero ==
    <<"0", "1", "/", "0", "3", "/", "2", "0", "2", "4", "|", "L", "U", "Z", "|", "1", ".", "1", ".", "1", "|", "N", "F", "1", "|", "a", "b", "c", "|", "D", "E", "S", "P", "|", "P", "A", "G", "A", "R">>

\* 7 fields, amount zero
lFixoZero ==
    <<"0", "1", "/", "0", "3", "/", "2", "0", "2", "4", "|", "L", "U", "Z", "|", "1", ".", "1", ".", "1", "|", "N", "F", "1", "|", "0", ",", "0", "0", "|", "D", "E", "S", "P", "|", "P", "A", "G", "A", "R">>

\* 7 fields, debit marker after the amount
lFixoD ==
    <<"0", "1", "/", "0", "3", "/", "2", "0", "2", "4", "|", "L", "U", "Z", "|", "1", ".", "1", ".", "1", "|", "N", "F", "1", "|", "1", "5", "0", ",", "0", "0", " ", "D", "|", "D", "E", "S", "P", "|", "P", "A", "G", "A", "R">>

\* 3 delimited fields
lVar ==
    <<"0", "1", "/", "0", "3", "/", "2", "0", "2", "4", ";", "L", "U", "Z", ";", "1", "5", "0", ",", "0", "0">>

\* 5 delimited fields with account and document
lVarConta ==
    <<"0", "1", "/", "0", "3", "/", "2", "0", "2", "4", ";", "L", "U", "Z", ";", "1", ".", "1", ".", "1", ";", "N", "F", "1", ";", "1", "5", "0", ",", "0", "0">>

\* the date is the second field
lVarDataSegundo ==
    <<"L", "U", "Z", ";", "0", "1", "/", "0", "3", "/", "2", "0", "2", "4", ";", "-", "1", "5", "0", ",", "0", "0">>

\* no field looks like an amount
lVarSemValor ==
    <<"0", "1", "/", "0", "3", "/", "2", "0", "2", "4", ";", "L", "U", "Z", ";", "N", "F", "1">>

\* the date does not exist
lVarDataInvalida ==
    <<"3", "1", "/", "0", "2", "/", "2", "0", "2", "4", ";", "L", "U", "Z", ";", "1", "5", "0", ",", "0", "0">>

\* fewer than three delimited fields
lDoisCampos ==
    <<"0", "1", "/", "0", "3", "/", "2", "0", "2", "4", ";", "1", "5", "0", ",", "0", "0">>

\* positional, no marker
lPos ==
    <<"0", "1", "/", "0", "3", "/", "2", "0", "2", "4", " ", "L", "U", "Z", " ", "1", "5", "0", ",", "0", "0">>

\* positional, debit marker
lPosD ==
    <<"0", "1", "/", "0", "3", "/", "2", "0", "2", "4", " ", "L", "U", "Z", " ", "1", "5", "0", ",", "0", "0", " ", "D">>

\* positional, credit marker
lPosC ==
    <<"0", "1", "/", "0", "3", "/", "2", "0", "2", "4", " ", "L", "U", "Z", " ", "1", "5", "0", ",", "0", "0", " ", "C">>

\* positional, leading minus
lPosNeg ==
    <<"0", "1", "/", "0", "3", "/", "2", "0", "2", "4", " ", "C", "O", "N", "T", "A", " ", "D", "E", " ", "L", "U", "Z", " ", "-", "1", "5", "0", ",", "0", "0">>

\* positional, amount zero
lPosZero ==
    <<"0", "1", "/", "0", "3", "/", "2", "0", "2", "4", " ", "L", "U", "Z", " ", "0", ",", "0", "0">>

\* positional, the amount is a lone hyphen
lPosHifen ==
    <<"0", "1", "/", "0", "3", "/", "2", "0", "2", "4", " ", "L", "U", "Z", " ", "-">>

\* positional, one-digit day and month
lPosDataCurta ==
    <<"1", "/", "3", "/", "2", "0", "2", "4", " ", "L", "U", "Z", " ", "1", "5", "0", ",", "0", "0">>

\* no delimiter and no date at the start
lSemPadrao ==
    <<"L", "U", "Z", " ", "1", "5", "0", ",", "0", "0">>

\* a header line
lCabecalho ==
    <<"D", "A", "T", "A", ";", "H", "I", "S", "T", "O", "R", "I", "C", "O", ";", "V", "A", "L", "O", "R">>

\* a blank line
lVazia ==
    <<" ", " ">>

LinhaUniverse ==
    { lFixo, lFixoNaoNumero, lFixoZero, lFixoD, lVar, lVarConta, lVarDataSegundo,
      lVarSemValor, lVarDataInvalida, lDoisCampos, lPos, lPosD, lPosC, lPosNeg,
      lPosZero, lPosHifen, lPosDataCurta, lSemPadrao, lCabecalho, lVazia }

TxtInit ==
    /\ txtLinhas \in SeqsUpTo(LinhaUniverse, MaxLinhas)
    /\ txtStrict \in BOOLEAN
    /\ txtNumLinha = 0
    /\ txtLancamentos = <<>>
    /\ txtIssues = <<>>
    /\ txtEfeitos = <<>>
    /\ pcTxt = "lendo"
    /\ divergencias = <<>>
    /\ StrictIdle
    /\ FuzzyIdle
    /\ ValidaIdle
    /\ ParseIdle
    /\ JobIdle
    /\ PdfIdle
    /\ LedgerIdle

TxtUnchanged ==
    UNCHANGED <<strictVars, fuzzyVars, divergencias, validaVars, parseVars, jobVars,
                pdfVars, ledgerVars>>

\* what one iteration leaves: the transactions and issues it pushed, and
\* the rejection when it threw
TxtAplica(e) ==
    /\ txtNumLinha' = txtNumLinha + 1
    /\ txtLancamentos' = txtLancamentos \o e.lancamentos
    /\ txtIssues' = txtIssues \o e.issues
    /\ txtEfeitos' = Append(txtEfeitos, e)
    /\ pcTxt' = IF e.lancou THEN "rejected" ELSE "lendo"

\* one iteration of the for loop; a throw leaves the loop and rejects
TxtLinha ==
    /\ pcTxt = "lendo"
    /\ txtNumLinha < Len(txtLinhas)
    /\ TxtAplica(ParseLinha(txtLinhas[txtNumLinha + 1], txtNumLinha + 1, txtStrict))
    /\ UNCHANGED <<txtLinhas, txtStrict>>
    /\ TxtUnchanged

\* resolve({ lancamentos, issues }) after the last line
TxtResolve ==
    /\ pcTxt = "lendo"
    /\ txtNumLinha = Len(txtLinhas)
    /\ pcTxt' = "resolved"
    /\ UNCHANGED <<txtLinhas, txtStrict, txtNumLinha, txtLancamentos, txtIssues,
                   txtEfeitos>>
    /\ TxtUnchanged

TxtNext == TxtLinha \/ TxtResolve

SpecTxt == TxtInit /\ [][TxtNext]_vars

----------------------------------------------------------------------------
(* Claims about parseOtimizaTxt *)

\* lines whose amount is followed by the debit marker
LinhasDebito == { lPosD, lFixoD }

\* unsigned amounts followed by the credit marker or by nothing
LinhasCredito == { lPosC, lPos }

\* C24: a trailing debit marker D negates the parsed amount and a trailing
\* credit marker C leaves it unchanged: a positional ledger line 'date, text,
\* amount, D' yields a transaction with a negative amount, the same line
\* ending in C or in no marker a positive one.
C24_DebitMarkerNegates ==
    \A n \in 1..Len(txtEfeitos) :
        LET lancs == txtEfeitos[n].lancamentos
        IN  /\ txtLinhas[n] \in LinhasDebito =>
                   /\ Len(lancs) = 1
                   /\ ~lancs[1].valor.nan
                   /\ lancs[1].valor.val < 0
            /\ txtLinhas[n] \in LinhasCredito =>
                   /\ Len(lancs) = 1
                   /\ ~lancs[1].valor.nan
                   /\ lancs[1].valor.val > 0

\* C25: in non-strict mode every line that is neither empty nor a header
\* ends in exactly one of: one transaction; one issue; a silent drop because
\* its amount is exactly zero.
C25_EveryLineAccountedFor ==
    ~txtStrict =>
        \A n \in 1..Len(txtEfeitos) :
            LET e == txtEfeitos[n]
            IN  e.motivo \notin { "vazia", "cabeçalho" } =>
                    \/ Len(e.lancamentos) = 1 /\ Len(e.issues) = 0
                    \/ Len(e.lancamentos) = 0 /\ Len(e.issues) = 1
                    \/ /\ Len(e.lancamentos) = 0
                       /\ Len(e.issues) = 0
                       /\ e.motivo = "valor zero"

\* C26: every transaction the parser emits has an amount that is a number
\* and is not zero.
C26_AmountsAreFiniteNonZero ==
    \A i \in 1..Len(txtLancamentos) :
        /\ ~txtLancamentos[i].valor.nan
        /\ txtLancamentos[i].valor.val # 0

----------------------------------------------------------------------------
(* Step 1 of processarComparacao: the ledger files are parsed, their signs
   normalised, the lists concatenated and the duplicates removed *)

MaxArquivos == 2

nReceber == <<"R","E","C","E","B","E","R",".","t","x","t">>

\* a description of 51 characters
Longa(ultimo) == [i \in 1..50 |-> "a"] \o <<ultimo>>

\* 200.00 is 40000; 199.995 rounds to 200.00 and 200.005 to 200.01
LedgerArquivoUniverse ==
    { Arquivo(nPagar, <<LancJob(5, 40000, sPix, s11, sPagamento)>>, <<>>, NULL),
      Arquivo(nPagar, <<LancJob(5, 39999, sPix, s11, sPagamento),
                        LancJob(5, -40000, <<" ","p","i","x"," ">>, s21, sPagamento)>>,
              <<>>, NULL),
      Arquivo(nReceber, <<LancJob(5, -40000, sPix, s11, sPagamento)>>, <<>>, NULL),
      Arquivo(nRazao, <<LancJob(5, -40000, sPix, s11, sPagamento),
                        LancJob(5, -40001, sPix, s11, sPagamento),
                        LancJob(5, -40000, sPix, s21, <<>>)>>, <<>>, NULL),
      Arquivo(nRazao, <<LancJob(5, 40000, sPix, s11, sPagamento),
                        LancJob(6, 40000, sPix, s11, sPagamento)>>,
              <<"Linha 3: Valor não encontrado">>, NULL),
      Arquivo(nRazao, <<LancJob(8, 200, Longa("x"), <<>>, <<>>),
                        LancJob(8, 200, Longa("y"), <<>>, <<>>),
                        LancJob(8, 200, sTed, <<>>, <<>>)>>, <<>>, NULL),
      Arquivo(nRazao, <<>>, <<>>, NULL) }

LedgerInit ==
    /\ ledgerArquivos \in SeqsUpTo(LedgerArquivoUniverse, MaxArquivos) \ {<<>>}
    /\ ledgerFalhas = {}
    /\ ledgerUnicos = <<>>
    /\ ledgerIssues = <<>>
    /\ pcLedger = "start"
    /\ divergencias = <<>>
    /\ StrictIdle
    /\ FuzzyIdle
    /\ ValidaIdle
    /\ ParseIdle
    /\ JobIdle
    /\ PdfIdle
    /\ TxtIdle

LedgerUnchanged ==
    UNCHANGED <<strictVars, fuzzyVars, divergencias, validaVars, parseVars, jobVars,
                pdfVars, txtVars>>

\* the for loop over inputFiles.otimiza and the duplicate removal, as
\* ComparacaoLida runs them
LedgerStage ==
    /\ pcLedger = "start"
    /\ \E falhas \in SUBSET (1..Len(ledgerArquivos)) :
          LET acc == LoopOtimiza(1, 0, ledgerArquivos, falhas, 1,
                         [disco |-> {}, lancamentosOtimiza |-> <<>>,
                          allIssues |-> <<>>, erros |-> {}])
              lancamentosUnicos == RemoveDuplicados(acc.lancamentosOtimiza, {}, <<>>)
              duplicadosRemovidos == Len(acc.lancamentosOtimiza) - Len(lancamentosUnicos)
          IN  /\ ledgerFalhas' = falhas
              /\ ledgerUnicos' = lancamentosUnicos
              /\ ledgerIssues' =
                     IF duplicadosRemovidos > 0
                     THEN Append(acc.allIssues,
                                 Issue(<<>>, "Removidos", duplicadosRemovidos))
                     ELSE acc.allIssues
    /\ pcLedger' = "done"
    /\ UNCHANGED ledgerArquivos
    /\ LedgerUnchanged

LedgerNext == LedgerStage

SpecLedger == LedgerInit /\ [][LedgerNext]_vars

\* the transactions of the files that were parsed, signs normalised, in the
\* order of the files
RECURSIVE LedgerTotalFrom(_)
LedgerTotalFrom(idx) ==
    IF idx > Len(ledgerArquivos) THEN <<>>
    ELSE (IF idx \in ledgerFalhas THEN <<>>
          ELSE NormalizaSinal(ledgerArquivos[idx].filename,
                              ledgerArquivos[idx].lancamentos))
         \o LedgerTotalFrom(idx + 1)

\* the date, the first 50 characters of the trimmed upper-cased description,
\* and the amount in whole cents, a half cent going up
ChaveDoLancamento(lanc) ==
    LET desc == toUpperCase(trim(lanc.descricao))
    IN  <<lanc.data,
          IF Len(desc) > 50 THEN SubSeq(desc, 1, 50) ELSE desc,
          (lanc.valor + 1) \div 2>>

\* C27: after the ledger stage no two retained transactions share the key
\* (date, first 50 characters of the trimmed upper-cased description, amount
\* rounded to cents, after the sign normalisation); the retained list is the
\* first occurrence of each key in concatenation order, also when both
\* occurrences come from one file; the number reported as removed is total
\* minus retained.
C27_RetainedAreFirstOccurrences ==
    pcLedger = "done" =>
        LET total == LedgerTotalFrom(1)
            primeiros == { i \in 1..Len(total) :
                             \A k \in 1..(i - 1) :
                                 ChaveDoLancamento(total[k]) # ChaveDoLancamento(total[i]) }
            ordem == EmOrdem(primeiros)
            removidos == Len(total) - Len(ledgerUnicos)
            relatados == { i \in 1..Len(ledgerIssues) : ledgerIssues[i].texto = "Removidos" }
        IN  /\ \A i, k \in 1..Len(ledgerUnicos) :
                   i # k => ChaveDoLancamento(ledgerUnicos[i])
                                # ChaveDoLancamento(ledgerUnicos[k])
            /\ ledgerUnicos = [k \in 1..Len(ordem) |-> total[ordem[k]]]
            /\ IF removidos > 0
               THEN /\ Cardinality(relatados) = 1
                    /\ \A i \in relatados : ledgerIssues[i].n = removidos
               ELSE relatados = {}

\* two files were parsed; one of them held the same key twice, amounts that
\* differ below the cent included, and duplicates were removed across the
\* files as well
C27_Witness ==
    /\ pcLedger = "done"
    /\ Len(ledgerArquivos) = 2
    /\ ledgerFalhas = {}
    /\ \E f \in 1..2 :
          LET l == NormalizaSinal(ledgerArquivos[f].filename, ledgerArquivos[f].lancamentos)
          IN  \E i, k \in 1..Len(l) :
                  /\ i < k
                  /\ l[i].valor # l[k].valor
                  /\ ChaveDoLancamento(l[i]) = ChaveDoLancamento(l[k])
    /\ \E i \in 1..Len(ledgerIssues) :
          /\ ledgerIssues[i].texto = "Removidos"
          /\ ledgerIssues[i].n >= 3

----------------------------------------------------------------------------
(* A comparison that is processed again, and one that is deleted while its
   run is under way *)

\* processarComparacao(comparacaoId, db) is called again for an id whose
\* previous run is over: the locals are new, the write of 'processing' is
\* under way
Reprocessar(j) ==
    /\ worker[j].pc \in {"resolved", "rejected"}
    /\ worker[j].execucao < MaxExecucoes
    /\ worker' = [worker EXCEPT ![j] =
           [WorkerInicial EXCEPT !.pc = "processing", !.execucao = worker[j].execucao + 1]]
    /\ UNCHANGED <<comparacoes, tabelaDivergencias, tabelaValidacoes, disco, relogio,
                   divergencias>>
    /\ UNCHANGED <<strictVars, fuzzyVars, validaVars, parseVars, leitorVars, rotaVars>>

\* DELETE /comparacoes/:id, first await: getComparacaoById found the row
DeleteLida(j) ==
    /\ pedidosDelete[j] = "nenhum"
    /\ LinhaExiste(comparacoes[j])
    /\ pedidosDelete' = [pedidosDelete EXCEPT ![j] = "lido"]
    /\ UNCHANGED <<comparacoes, tabelaDivergencias, tabelaValidacoes, disco, relogio,
                   worker, divergencias>>
    /\ UNCHANGED <<strictVars, fuzzyVars, validaVars, parseVars, leitorVars>>

\* DELETE /comparacoes/:id, second await: deleteComparacao returns, the row
\* is gone and ON DELETE CASCADE took the rows of divergencias and of
\* account_validation_results with it in the same statement, or it throws
\* and the route answers 500
DeleteFeita(j) ==
    /\ pedidosDelete[j] = "lido"
    /\ \E ok \in BOOLEAN :
          IF ok
          THEN /\ comparacoes' = [comparacoes EXCEPT ![j].status = "deletada"]
               /\ tabelaDivergencias' = [tabelaDivergencias EXCEPT ![j] = <<>>]
               /\ tabelaValidacoes' = [tabelaValidacoes EXCEPT ![j] = <<>>]
               /\ pedidosDelete' = [pedidosDelete EXCEPT ![j] = "feito"]
          ELSE /\ pedidosDelete' = [pedidosDelete EXCEPT ![j] = "falhou"]
               /\ UNCHANGED <<comparacoes, tabelaDivergencias, tabelaValidacoes>>
    /\ UNCHANGED <<disco, relogio, worker, divergencias>>
    /\ UNCHANGED <<strictVars, fuzzyVars, validaVars, parseVars, leitorVars>>

\* the comparison that is followed: the runs of different ids share no row
\* and no local
CicloJobs == {1}

CicloNext ==
    \/ \E j \in CicloJobs : PostComparacao(j)
    \/ Tick
    \/ \E j \in CicloJobs : ProcessingWritten(j)
    \/ \E j \in CicloJobs : ComparacaoLida(j)
    \/ \E j \in CicloJobs : CsvStreamEnd(j)
    \/ \E j \in CicloJobs : DivergenciasDeleted(j)
    \/ \E j \in CicloJobs : DivergenciaCreated(j)
    \/ \E j \in CicloJobs : LancamentoValidado(j)
    \/ \E j \in CicloJobs : ConcluidaWritten(j)
    \/ \E j \in CicloJobs : ErroWritten(j)
    \/ \E j \in CicloJobs : Reprocessar(j)
    \/ \E j \in CicloJobs : DeleteLida(j)
    \/ \E j \in CicloJobs : DeleteFeita(j)

SpecCiclo == JobInit /\ [][CicloNext]_vars

\* the run of an id went through the whole ledger and wrote 'concluida'
\* after the id had been processed before
SegundaConcluida(j) ==
    /\ worker[j].execucao > 0
    /\ worker[j].pc = "resolved"
    /\ worker[j].validado
    /\ comparacoes[j].status = "concluida"

\* C28: after runs of one comparison id that end concluida the store holds
\* the divergences of the last run only and exactly one validation result
\* per ledger transaction of that run
C28_RerunLeavesLastRunOnly ==
    \A j \in CicloJobs :
        SegundaConcluida(j) =>
            /\ tabelaDivergencias[j] = worker[j].divergencias
            /\ Len(tabelaValidacoes[j]) = Len(worker[j].lancamentosOtimiza)

\* the deletion of the comparison and its run are both over
DeletadaEmCurso(j) ==
    /\ pedidosDelete[j] = "feito"
    /\ worker[j].pc \in {"resolved", "rejected"}

\* C30: once the deletion of a comparison and its worker have both finished,
\* the store holds no divergence row and no validation-result row of the
\* deleted comparison, and the comparison row is not back
C30_DeletedComparisonLeavesNoRows ==
    \A j \in CicloJobs :
        DeletadaEmCurso(j) =>
            /\ tabelaDivergencias[j] = <<>>
            /\ tabelaValidacoes[j] = <<>>
            /\ ~LinhaExiste(comparacoes[j])

\* the row was deleted between two inserts of the first run: one divergence
\* was stored, the next createDivergencia met the foreign key, and the run
\* ended rejected
C30_Witness ==
    \E j \in CicloJobs :
        /\ DeletadaEmCurso(j)
        /\ worker[j].execucao = 0
        /\ worker[j].pc = "rejected"
        /\ worker[j].idxDiv > 1
        /\ <<"createDivergencia", SQLITE_CONSTRAINT>> \in worker[j].erros


====
